---- MODULE Spec2Model ----
(***************************************************************************)
(* A model of the sprockets conformance test driver: the traversal planner *)
(* (stl/traverse.py), the transition graph builder (stl/graph.py), the     *)
(* resolver entry points and the executor (test_driver.py), the            *)
(* transition runner (stl/state.py) and the library qualifiers             *)
(* (stl/lib.py).                                                           *)
(*                                                                         *)
(* A graph is a function from edge identifiers <<source, target, key>> to  *)
(* the attribute record of that edge, as networkx keeps                    *)
(* graph[source][target][key].  Nodes exist only as end points of edges,   *)
(* because BuildTransitionGraph only ever calls add_edge.                  *)
(***************************************************************************)
EXTENDS Integers, Sequences, FiniteSets, TLC

(***************************************************************************)
(* Bounds of the model.                                                    *)
(***************************************************************************)
\* Most edges of a three-node graph handed to the planner on its own.
MaxEdges == 4
\* Most edges added to the four-node cycle handed to the planner on its own.
MaxExtra == 2
\* Most transitions a module declares for the test.
MaxTransitions == 3
\* Most events of a transition.
MaxEvents == 2
\* The largest number random.randint draws, standing for 999999.
MaxRand == 2
\* Most calls made on one qualifier instance.
MaxCalls == 3
\* The longest string given to closest_candidate.
MaxStr == 2
\* The most symbols on the parser's stack below the ones that are matched.
MaxPrefix == 1
\* The most definitions read into one module.
MaxDefs == 2
\* The most elements of a list given for a repeated field.
MaxList == 2
\* The interpreter's recursion limit: the most nested calls of Transition.Resolve.
MaxDepth == 4

\* float('inf'): the weight of a failed edge, and the distance of no path.
Inf == 1000000

Plus(a, b) == IF a >= Inf \/ b >= Inf THEN Inf ELSE a + b

SetMin(S) == CHOOSE x \in S : \A y \in S : x <= y

FunExt(f, k, v) == (k :> v) @@ f

EmptyFun == [x \in {} |-> 0]

\* f as an explicit table: the same function, evaluated once.
Table(f) == f @@ EmptyFun

SeqRange(q) == {q[i] : i \in 1..Len(q)}

RECURSIVE SumSeq(_)
SumSeq(q) == IF q = <<>> THEN 0 ELSE Plus(Head(q), SumSeq(Tail(q)))

(***************************************************************************)
(* networkx views of a MultiDiGraph.                                       *)
(***************************************************************************)
GNodes(g) == {e[1] : e \in DOMAIN g} \cup {e[2] : e \in DOMAIN g}

MultiEdge(g, u, v) == {e[3] : e \in {d \in DOMAIN g : d[1] = u /\ d[2] = v}}

out_degree(g, n) == Cardinality({e \in DOMAIN g : e[1] = n})

in_degree(g, n) == Cardinality({e \in DOMAIN g : e[2] = n})

\* The weight networkx gives a step u -> v of a multigraph: the least
\* weight of the parallel edges (Inf when there is none).
StepWeight(g, u, v) ==
  IF MultiEdge(g, u, v) = {} THEN Inf
  ELSE SetMin({g[<<u, v, k>>].weight : k \in MultiEdge(g, u, v)})

RECURSIVE FWRelax(_, _, _)
FWRelax(d, N, ks) ==
  IF ks = {} THEN d
  ELSE LET k == CHOOSE x \in ks : TRUE
           d2 == Table([p \in N \X N |->
                    IF Plus(d[<<p[1], k>>], d[<<k, p[2]>>]) < d[p]
                    THEN Plus(d[<<p[1], k>>], d[<<k, p[2]>>]) ELSE d[p]])
       IN FWRelax(d2, N, ks \ {k})

\* nx.floyd_warshall(graph): all-pairs distances d[<<u, v>>], Inf for no path.
floyd_warshall(g) ==
  LET N == GNodes(g)
      d0 == Table([p \in N \X N |->
               IF p[1] = p[2] THEN 0 ELSE StepWeight(g, p[1], p[2])])
  IN FWRelax(d0, N, N)

\* Reachability by edges whatever their weight.
Hops(g) ==
  LET N == GNodes(g)
      d0 == Table([p \in N \X N |->
               IF p[1] = p[2] THEN 0
               ELSE IF MultiEdge(g, p[1], p[2]) = {} THEN Inf ELSE 1])
  IN FWRelax(d0, N, N)

\* A faulty variant: any graph passes for strongly connected.
is_connected_anyhow(g) == TRUE

\* nx.is_strongly_connected(graph)
is_strongly_connected(g) ==
  LET h == Hops(g) IN \A p \in GNodes(g) \X GNodes(g) : h[p] < Inf

RECURSIVE SimplePaths(_, _, _)
SimplePaths(g, path, b) ==
  LET last == path[Len(path)] IN
  IF last = b THEN {path}
  ELSE UNION {SimplePaths(g, Append(path, n), b) :
                n \in {m \in GNodes(g) : MultiEdge(g, last, m) # {}
                                         /\ \A i \in 1..Len(path) : path[i] # m}}

PathWeight(g, path) ==
  SumSeq([i \in 1..(Len(path) - 1) |-> StepWeight(g, path[i], path[i + 1])])

\* nx.shortest_path(graph, a, b, weight='weight'): the node lists Dijkstra
\* may return, any simple path of least total weight.  The set is empty
\* where networkx raises: a is no node of the graph, or b is not reachable.
shortest_path(g, a, b) ==
  IF a \notin GNodes(g) \/ b \notin GNodes(g) THEN {}
  ELSE LET P == SimplePaths(g, <<a>>, b) IN
       {p \in P : \A q \in P : PathWeight(g, p) <= PathWeight(g, q)}

(***************************************************************************)
(* The Hungarian method (stl/traverse.py, class Context).  A context is a  *)
(* record of the algorithm variables; the bipartite graph is given by the  *)
(* node sets left and right and the weight function w[x][y].  Python sets  *)
(* are iterated in an order the program does not control, so every loop    *)
(* over a set yields the set of contexts some order can produce.           *)
(***************************************************************************)
\* A faulty variant: every edge is taken to be in the equality subgraph.
InAnySubgraph(c, x, y) == TRUE

InEqualitySubgraph(c, x, y) == c.w[<<x, y>>] = c.labels[x] + c.labels[y]

CalcSlack(c, x, y) == c.labels[x] + c.labels[y] - c.w[<<x, y>>]

AddToTree(c, x, prevx) ==
  LET better == {y \in c.right : CalcSlack(c, x, y) < c.slack[y]} IN
  [c EXCEPT !.s = c.s \cup {x},
            !.prev = FunExt(c.prev, x, prevx),
            !.slack = Table([y \in c.right |->
                         IF y \in better THEN CalcSlack(c, x, y) ELSE c.slack[y]]),
            !.slackx = Table([y \in c.right |->
                          IF y \in better THEN x ELSE c.slackx[y]])]

\* The for loop of FindAugmentingPath over the nodes ys still to visit.
RECURSIVE FindAugmentingPathFor(_, _, _, _)
FindAugmentingPathFor(c, q, x, ys) ==
  IF ys = {} THEN {[found |-> FALSE, x |-> x, y |-> x, c |-> c, q |-> q]}
  ELSE UNION {
    IF ~InEqualitySubgraph(c, x, y)
    THEN FindAugmentingPathFor(c, q, x, ys \ {y})
    ELSE IF y \notin DOMAIN c.matches
    THEN {[found |-> TRUE, x |-> x, y |-> y, c |-> c, q |-> q]}
    ELSE FindAugmentingPathFor(
           AddToTree([c EXCEPT !.t = c.t \cup {y}], c.matches[y], x),
           Append(q, c.matches[y]), x, ys \ {y})
    : y \in ys}

RECURSIVE FindAugmentingPath(_, _)
FindAugmentingPath(c, q) ==
  IF q = <<>> THEN {[found |-> FALSE, x |-> <<0, 0>>, y |-> <<0, 0>>, c |-> c, q |-> q]}
  ELSE UNION {IF r.found THEN {r} ELSE FindAugmentingPath(r.c, r.q) :
                r \in FindAugmentingPathFor(c, Tail(q), Head(q), c.right \ c.t)}

\* The loop of FindAugmentingEdge over the nodes ys still to visit; the
\* generator tests the slack of a node when it comes to it.
RECURSIVE FindAugmentingEdgeFor(_, _, _)
FindAugmentingEdgeFor(c, q, ys) ==
  IF ys = {} THEN {[found |-> FALSE, x |-> <<0, 0>>, y |-> <<0, 0>>, c |-> c, q |-> q]}
  ELSE UNION {
    IF c.slack[y] # 0
    THEN FindAugmentingEdgeFor(c, q, ys \ {y})
    ELSE IF y \notin DOMAIN c.matches
    THEN {[found |-> TRUE, x |-> c.slackx[y], y |-> y, c |-> c, q |-> q]}
    ELSE LET c1 == [c EXCEPT !.t = c.t \cup {y}] IN
         IF c.matches[y] \notin c1.s
         THEN FindAugmentingEdgeFor(AddToTree(c1, c.matches[y], c.slackx[y]),
                                    Append(q, c.matches[y]), ys \ {y})
         ELSE FindAugmentingEdgeFor(c1, q, ys \ {y})
    : y \in ys}

FindAugmentingEdge(c, q) == FindAugmentingEdgeFor(c, q, c.right \ c.t)

UpdateLabels(c) ==
  LET delta == IF c.right \ c.t = {} THEN Inf
               ELSE SetMin({c.slack[y] : y \in c.right \ c.t})
  IN [c EXCEPT !.labels = Table([n \in DOMAIN c.labels |->
                             IF n \in c.s THEN c.labels[n] - delta
                             ELSE IF n \in c.t THEN c.labels[n] + delta
                             ELSE c.labels[n]]),
               !.slack = Table([y \in c.right |->
                            IF y \in c.t THEN c.slack[y] ELSE c.slack[y] - delta])]

RECURSIVE InvertPathLoop(_, _, _, _)
InvertPathLoop(m, prev, x, y) ==
  LET ty == IF x \in DOMAIN m THEN m[x] ELSE y
      m2 == FunExt(FunExt(m, y, x), x, y)
  IN IF x \notin DOMAIN prev THEN m2
     ELSE InvertPathLoop(m2, prev, prev[x], ty)

InvertPath(c, x, y) ==
  [c EXCEPT !.num_matched = c.num_matched + 1,
            !.matches = InvertPathLoop(c.matches, c.prev, x, y)]

\* The while True loop of Augment, entered with the queue q.
RECURSIVE AugmentLoop(_, _)
AugmentLoop(c, q) ==
  UNION {
    IF r.found THEN {InvertPath(r.c, r.x, r.y)}
    ELSE UNION {IF e.found THEN {InvertPath(e.c, e.x, e.y)}
                ELSE AugmentLoop(e.c, e.q) :
                  e \in FindAugmentingEdge(UpdateLabels(r.c), <<>>)}
    : r \in FindAugmentingPath(c, q)}

Augment(c) ==
  UNION {
    AugmentLoop([c EXCEPT !.s = {root}, !.t = {}, !.prev = EmptyFun,
                          !.slack = Table([y \in c.right |-> CalcSlack(c, root, y)]),
                          !.slackx = Table([y \in c.right |-> root])],
                <<root>>)
    : root \in c.left \ DOMAIN c.matches}

ContextInit(left, right, w) ==
  [left |-> left, right |-> right, w |-> w,
   labels |-> Table([n \in left \cup right |->
                 IF n \in left
                 THEN CHOOSE m \in {w[<<n, y>>] : y \in right} :
                        \A o \in {w[<<n, y>>] : y \in right} : o <= m
                 ELSE 0]),
   num_matched |-> 0, s |-> {}, t |-> {}, matches |-> EmptyFun,
   slack |-> EmptyFun, slackx |-> EmptyFun, prev |-> EmptyFun]

RECURSIVE MatchingLoop(_)
MatchingLoop(C) ==
  IF \A c \in C : c.num_matched = Cardinality(c.left) THEN C
  ELSE MatchingLoop(UNION {IF c.num_matched = Cardinality(c.left) THEN {c}
                           ELSE Augment(c) : c \in C})

\* Context.MaxBipartiteMatching: the left -> right mappings it may return.
MaxBipartiteMatching(left, right, w) ==
  {Table([k \in left |-> c.matches[k]]) : c \in MatchingLoop({ContextInit(left, right, w)})}

(***************************************************************************)
(* MinEdgeCoverCircuit (stl/traverse.py).                                  *)
(***************************************************************************)
\* left: one copy (n, x) per unit by which in-degree exceeds out-degree.
PlanLeft(g) ==
  UNION {{<<n, x>> : x \in 0..(in_degree(g, n) - out_degree(g, n) - 1)} : n \in GNodes(g)}

\* right: one copy (n, x) per unit by which out-degree exceeds in-degree.
PlanRight(g) ==
  UNION {{<<n, x>> : x \in 0..(out_degree(g, n) - in_degree(g, n) - 1)} : n \in GNodes(g)}

\* A faulty variant: the distances themselves as weights, not their negation.
BipartiteDistances(g) ==
  LET path_weights == floyd_warshall(g) IN
  Table([p \in PlanLeft(g) \X PlanRight(g) |-> path_weights[<<p[1][1], p[2][1]>>]])

\* A faulty variant: the distance from the right node to the left node.
BipartiteWeightsBack(g) ==
  LET path_weights == floyd_warshall(g) IN
  Table([p \in PlanLeft(g) \X PlanRight(g) |-> 0 - path_weights[<<p[2][1], p[1][1]>>]])

\* The weighted edges of the bipartite graph b.
BipartiteWeights(g) ==
  LET path_weights == floyd_warshall(g) IN
  Table([p \in PlanLeft(g) \X PlanRight(g) |-> 0 - path_weights[<<p[1][1], p[2][1]>>]])

\* The node pairs joined by a virtual edge, and how many virtual edges join s to t.
VirtualPairs(m) == {<<k[1], m[k][1]>> : k \in DOMAIN m}

\* A faulty variant: the virtual edges run from the matched node to its key.
VirtualCountBack(m, s, t) == Cardinality({k \in DOMAIN m : k[1] = t /\ m[k][1] = s})

VirtualCount(m, s, t) == Cardinality({k \in DOMAIN m : k[1] = s /\ m[k][1] = t})

\* The number of edges from s to t in copy, the graph with the virtual edges.
CopyCount(g, m, s, t) == Cardinality(MultiEdge(g, s, t)) + VirtualCount(m, s, t)

RECURSIVE EulerTrails(_, _, _, _)
EulerTrails(N, cnt, cur, acc) ==
  IF \A p \in N \X N : cnt[p] = 0 THEN {acc}
  ELSE UNION {EulerTrails(N, [cnt EXCEPT ![<<cur, v>>] = @ - 1], v,
                          Append(acc, <<cur, v>>)) :
                v \in {n \in N : cnt[<<cur, n>>] > 0}}

\* A faulty variant: an Eulerian circuit from any node, whatever the source.
eulerian_circuit_anywhere(g, m, source) ==
  LET N == GNodes(g)
      cnt == Table([p \in N \X N |-> CopyCount(g, m, p[1], p[2])])
  IN UNION {EulerTrails(N, cnt, n, <<>>) : n \in N}

\* nx.eulerian_circuit(copy, source=initial): the (u, v) sequences it may
\* return, any Eulerian circuit from the source; empty where networkx
\* raises because some node of copy has in-degree # out-degree.
eulerian_circuit(g, m, source) ==
  LET N == GNodes(g)
      cnt == Table([p \in N \X N |-> CopyCount(g, m, p[1], p[2])])
      balanced == \A n \in N :
        in_degree(g, n) + Cardinality({k \in DOMAIN m : m[k][1] = n})
          = out_degree(g, n) + Cardinality({k \in DOMAIN m : k[1] = n})
  IN IF balanced THEN EulerTrails(N, cnt, source, <<>>) ELSE {}

\* The smallest-weight edge from last to node: the first key whose weight
\* is below every earlier one, 0 when no weight is below infinity.
best_index(g, last, node) ==
  IF StepWeight(g, last, node) >= Inf THEN 0
  ELSE SetMin({k \in MultiEdge(g, last, node) :
                 g[<<last, node, k>>].weight = StepWeight(g, last, node)})

\* A faulty variant: a virtual edge expands to nothing.
SubPathNothing(g, path) == <<>>

SubPathEdges(g, path) ==
  [i \in 1..(Len(path) - 1) |-> <<path[i], path[i + 1], best_index(g, path[i], path[i + 1])>>]

\* The loop over euler_circuit: visited[<<s, t>>] counts the edges from s
\* to t already marked visited; keys run 0, 1, ... with the virtual edges last.
RECURSIVE ExpandCircuit(_, _, _, _, _)
ExpandCircuit(g, sub_path, euler, visited, acc) ==
  IF euler = <<>> THEN acc
  ELSE LET s == Head(euler)[1]
           t == Head(euler)[2]
           edge_index == visited[<<s, t>>]
           seen == [visited EXCEPT ![<<s, t>>] = @ + 1]
       IN IF edge_index >= Cardinality(MultiEdge(g, s, t))
          THEN ExpandCircuit(g, sub_path, Tail(euler), seen,
                             acc \o SubPathEdges(g, sub_path[<<s, t>>]))
          ELSE ExpandCircuit(g, sub_path, Tail(euler), seen,
                             Append(acc, <<s, t, edge_index>>))

\* The sub_path given to each virtual edge: nx.shortest_path is a function
\* of its arguments, so one path per pair of end points.
SubPathChoices(g, m) ==
  LET VP == VirtualPairs(m)
      All == UNION {shortest_path(g, p[1], p[2]) : p \in VP}
  IN {f \in [VP -> All] : \A p \in VP : f[p] \in shortest_path(g, p[1], p[2])}

\* What MinEdgeCoverCircuit(graph, initial) may compute for a strongly
\* connected graph: the matching, the sub-paths and the expanded circuit.
MinEdgeCoverCircuit(g, init) ==
  LET N == GNodes(g) IN
  UNION {UNION {
    {[matches |-> m, sub_path |-> sp,
      circuit |-> ExpandCircuit(g, sp, euler, Table([p \in N \X N |-> 0]), <<>>)] :
       euler \in eulerian_circuit(g, m, init)}
    : sp \in SubPathChoices(g, m)}
    : m \in MaxBipartiteMatching(PlanLeft(g), PlanRight(g), BipartiteWeights(g))}

(***************************************************************************)
(* Transitions (stl/state.py).  A transition is a record                   *)
(*   name, params (how many), expand (<<>> or <<[name, values]>>),         *)
(*   pre_states (a list of option groups), events, post_states,            *)
(*   error_states.                                                         *)
(* A state value is [kind, state, value]: kind "StateValueInTransition" as *)
(* parsed, "StateValue" once resolved.  An event is [kind, id, source,     *)
(* target, expand]: kind "EventInTransition" as parsed, "FuncWithContext"  *)
(* once resolved; expand tells whether the event names an external         *)
(* function (without one it resolves to FuncNoOp and is left out).  What   *)
(* raises yields a record with a field raised.                             *)
(***************************************************************************)
Raise(what) == [raised |-> what]

Raised(x) == "raised" \in DOMAIN x

\* Transition.IsResolved
IsResolved(t) == t.params = 0 /\ t.expand = <<>>

\* StateValueInTransition.Resolve, for states declared without parameters.
ResolveStateValue(sv) == [kind |-> "StateValue", state |-> sv.state, value |-> sv.value]

\* The two loops of Transition.Resolve over env['_roles_to_test'] for one
\* resolved event: the events appended, or the RuntimeError.
ResolveEvent(e, roles_to_test) ==
  LET f == [kind |-> "FuncWithContext", id |-> e.id, source |-> e.source, target |-> e.target]
      test_source == e.source \in roles_to_test
  IN IF ~e.expand THEN [events |-> <<>>]
     ELSE IF e.target \in roles_to_test
     THEN IF test_source THEN Raise("RuntimeError")
          ELSE [events |-> <<f>>]
     ELSE [events |-> IF test_source THEN <<f>> ELSE <<>>]

RECURSIVE ResolveEvents(_, _)
ResolveEvents(es, roles_to_test) ==
  IF es = <<>> THEN [events |-> <<>>]
  ELSE LET r == ResolveEvent(Head(es), roles_to_test) IN
       IF Raised(r) THEN r
       ELSE LET rest == ResolveEvents(Tail(es), roles_to_test) IN
            IF Raised(rest) THEN rest ELSE [events |-> r.events \o rest.events]

\* Transition.Resolve(env, resolved_params) of the definition stored at
\* position i of env['_current_module'].transitions: keys are the keys of
\* that dictionary and defs its values.  The result tells the transition
\* returned and, in self, which stored definition the returned object is
\* (0 for a new Transition object): an expansion assigns its own name to the
\* object it got back.
Lookup(keys, name) ==
  {i \in 1..Len(keys) : keys[i] = name}

RECURSIVE Resolve(_, _, _, _)
Resolve(i, keys, defs, roles_to_test) ==
  LET t == defs[i] IN
  IF IsResolved(t) THEN [resolved |-> t, self |-> i]
  ELSE IF t.expand # <<>>
  THEN LET expand == t.expand[1] IN
       IF expand.name = t.name THEN Raise("NameError")
       ELSE IF Lookup(keys, expand.name) = {} THEN Raise("NameError")
       ELSE LET j == CHOOSE j \in Lookup(keys, expand.name) : TRUE
                found == defs[j]
            IN IF Len(expand.values) # found.params THEN Raise("TypeError")
               ELSE LET r == Resolve(j, keys, defs, roles_to_test) IN
                    IF Raised(r) THEN r
                    ELSE [resolved |-> [r.resolved EXCEPT !.name = t.name],
                          self |-> r.self]
  ELSE LET ev == ResolveEvents(t.events, roles_to_test) IN
       IF Raised(ev) THEN ev
       ELSE [resolved |->
               [name |-> t.name, params |-> 0, expand |-> <<>>,
                pre_states |-> [g \in 1..Len(t.pre_states) |->
                                  [k \in 1..Len(t.pre_states[g]) |->
                                     ResolveStateValue(t.pre_states[g][k])]],
                events |-> ev.events,
                post_states |-> [k \in 1..Len(t.post_states) |->
                                   ResolveStateValue(t.post_states[k])],
                error_states |-> [k \in 1..Len(t.error_states) |->
                                    ResolveStateValue(t.error_states[k])]],
             self |-> 0]

(***************************************************************************)
(* The transition graph (stl/graph.py).  A vertex is its state_list, a     *)
(* sequence of state values kept sorted; two vertices are the same vertex  *)
(* when their state lists are equal.  The identifier of a vertex is its    *)
(* position in the work list vertexes.  States and values are numbered;    *)
(* the order of the numbers stands for the order of their strings.         *)
(***************************************************************************)
StateLess(a, b) == a.state < b.state \/ (a.state = b.state /\ a.value < b.value)

RECURSIVE InsertState(_, _)
InsertState(sorted, x) ==
  IF sorted = <<>> THEN <<x>>
  ELSE IF StateLess(x, Head(sorted)) THEN <<x>> \o sorted
  ELSE <<Head(sorted)>> \o InsertState(Tail(sorted), x)

RECURSIVE SortStates(_)
SortStates(list) ==
  IF list = <<>> THEN <<>>
  ELSE InsertState(SortStates(SubSeq(list, 1, Len(list) - 1)), list[Len(list)])

\* StateVertex(state_list).state_list
StateVertex(state_list) == SortStates(state_list)

HasAssignedState(state_list, state) ==
  \E i \in 1..Len(state_list) : state_list[i].state = state

RECURSIVE AppendLoop(_, _)
AppendLoop(self_list, state_list) ==
  IF state_list = <<>> THEN self_list
  ELSE AppendLoop(IF HasAssignedState(self_list, Head(state_list).state)
                  THEN self_list ELSE Append(self_list, Head(state_list)),
                  Tail(state_list))

AppendStateListNotExist(self_list, state_list) ==
  SortStates(AppendLoop(self_list, state_list))

\* A faulty variant: every state value is taken as compatible.
MatchWithAnyState(self_list, state) == TRUE

\* StateVertex._MatchWithState
MatchWithState(self_list, state) ==
  \A i \in 1..Len(self_list) :
    ~(state.state = self_list[i].state /\ state.value # self_list[i].value)

\* itertools.product(*trans.pre_states)
RECURSIVE Product(_)
Product(groups) ==
  IF groups = <<>> THEN {<<>>}
  ELSE {<<Head(groups)[i]>> \o rest :
          i \in 1..Len(Head(groups)), rest \in Product(Tail(groups))}

MatchWithTransition(self_list, trans) ==
  \E pre_states \in Product(trans.pre_states) :
    \A i \in 1..Len(pre_states) : MatchWithState(self_list, pre_states[i])

\* _AddVertex: the work list afterwards, and the position of the vertex.
AddVertex(vertexes, vertex) ==
  IF \E i \in 1..Len(vertexes) : vertexes[i] = vertex
  THEN vertexes ELSE Append(vertexes, vertex)

VertexId(vertexes, vertex) ==
  CHOOSE i \in 1..Len(vertexes) : vertexes[i] = vertex

\* The body of "for t in matched_transitions" for the vertex at position v:
\* b is [vertexes, edges], an edge is [source, transition, output, error]
\* with error 0 for None.
AddEdgesOf(b, v, transitions, ti) ==
  LET t == transitions[ti]
      output_v == AppendStateListNotExist(StateVertex(t.post_states), b.vertexes[v])
      with_output == AddVertex(b.vertexes, output_v)
      error_v == AppendStateListNotExist(StateVertex(t.error_states), b.vertexes[v])
      with_error == IF t.error_states # <<>> THEN AddVertex(with_output, error_v)
                    ELSE with_output
  IN [vertexes |-> with_error,
      edges |-> Append(b.edges,
                  [source |-> v, transition |-> ti,
                   output |-> VertexId(with_error, output_v),
                   error |-> IF t.error_states # <<>>
                             THEN VertexId(with_error, error_v) ELSE 0])]

RECURSIVE MatchedLoop(_, _, _, _)
MatchedLoop(b, v, transitions, ti) ==
  IF ti > Len(transitions) THEN b
  ELSE MatchedLoop(IF MatchWithTransition(b.vertexes[v], transitions[ti])
                   THEN AddEdgesOf(b, v, transitions, ti) ELSE b,
                   v, transitions, ti + 1)

RECURSIVE VertexLoop(_, _, _)
VertexLoop(b, v, transitions) ==
  IF v > Len(b.vertexes) THEN b
  ELSE VertexLoop(MatchedLoop(b, v, transitions, 1), v + 1, transitions)

\* nx_graph.add_edge(...) for each edge in turn: a new key is the number of
\* edges already joining the two nodes.
RECURSIVE AddNxEdges(_, _)
AddNxEdges(g, edges) ==
  IF edges = <<>> THEN g
  ELSE LET e == Head(edges)
           key == Cardinality(MultiEdge(g, e.source, e.output))
       IN AddNxEdges(FunExt(g, <<e.source, e.output, key>>,
                       [weight |-> 1, transition |-> e.transition,
                        error_vertex_id |-> IF e.error # 0 THEN e.error ELSE e.source]),
                     Tail(edges))

InitialValue(states, s) == [kind |-> "StateValue", state |-> s, value |-> states[s][1]]

\* BuildTransitionGraph(transitions, states): transitions the resolved
\* transitions in dictionary order, states the gathered state names in
\* dictionary order, declared the value lists of the state definitions.
BuildTransitionGraph(transitions, states, declared) ==
  LET initial_vertex == StateVertex([i \in 1..Len(states) |-> InitialValue(declared, states[i])])
      b == VertexLoop([vertexes |-> <<initial_vertex>>, edges |-> <<>>], 1, transitions)
  IN [nx_graph |-> AddNxEdges(EmptyFun, b.edges),
      initial_vertex |-> 1,
      vertexes |-> b.vertexes]

(***************************************************************************)
(* The driver (test_driver.py).                                            *)
(***************************************************************************)
\* A faulty variant: every event is invoked whatever the earlier ones returned.
TransitionRunAll(events, returns) ==
  [invoked |-> [i \in 1..Len(events) |-> events[i].id],
   result |-> \A i \in 1..Len(events) : returns[i] # "False"]

\* Transition.Run: returns[i] is what the i-th event returns when it is
\* invoked ("True", "False" or "None"); invoked lists the events invoked.
RECURSIVE RunLoop(_, _, _, _)
RunLoop(events, returns, i, invoked) ==
  IF i > Len(events) THEN [invoked |-> invoked, result |-> TRUE]
  ELSE IF returns[i] = "False"
       THEN [invoked |-> Append(invoked, events[i].id), result |-> FALSE]
       ELSE RunLoop(events, returns, i + 1, Append(invoked, events[i].id))

TransitionRun(events, returns) == RunLoop(events, returns, 1, <<>>)

\* The error a key of manifest['constants'] raises in FillInConstants, "" for none.
ConstKeyError(m, key) ==
  IF key[1] # m.name THEN "NameError"
  ELSE IF key[2] \notin DOMAIN m.consts THEN "NameError"
  ELSE IF m.consts[key[2]] # "None" THEN "RuntimeError"
  ELSE ""

\* const.value = val for the keys in done.
BindConsts(m, done) ==
  [m EXCEPT !.consts = [n \in DOMAIN m.consts |->
                          IF <<m.name, n>> \in done THEN "val" ELSE m.consts[n]]]

UndefinedConsts(m) == {n \in DOMAIN m.consts : m.consts[n] = "None"}

\* The definitions of the module once Transition.Resolve has returned r:
\* 'resolved.name = self.name' has written to the stored definition r.self.
Renamed(defs, r) ==
  IF r.self = 0 THEN defs ELSE [defs EXCEPT ![r.self] = r.resolved]

\* The values of the dictionary ResolveTransitions returns: an entry that is
\* a stored definition has whatever name that definition was given last.
ResolvedValues(acc, defs) ==
  [k \in 1..Len(acc) |-> IF acc[k].self = 0 THEN acc[k].resolved ELSE defs[acc[k].self]]

\* The loop of ResolveTransitions over m.transitions.values(); acc holds the
\* entries of the dictionary transitions with their keys.  The result has
\* the definitions of the module as the loop left them.
RECURSIVE ResolveLoop(_, _, _, _, _)
ResolveLoop(keys, defs, roles_to_test, i, acc) ==
  IF i > Len(defs) THEN [transitions |-> ResolvedValues(acc, defs), defs |-> defs]
  ELSE IF defs[i].params # 0 THEN ResolveLoop(keys, defs, roles_to_test, i + 1, acc)
  ELSE LET r == Resolve(i, keys, defs, roles_to_test) IN
       IF Raised(r) THEN [raised |-> r.raised, defs |-> defs]
       ELSE LET resolved_t == r.resolved
                now == Renamed(defs, r)
            IN IF ~IsResolved(resolved_t) THEN [raised |-> "RuntimeError", defs |-> now]
               ELSE IF \E k \in 1..Len(acc) : acc[k].key = resolved_t.name
               THEN [raised |-> "NameError", defs |-> now]
               ELSE ResolveLoop(keys, now, roles_to_test, i + 1,
                      IF resolved_t.events # <<>>
                      THEN Append(acc, [key |-> resolved_t.name, self |-> r.self,
                                        resolved |-> resolved_t])
                      ELSE acc)

ResolveTransitionsOf(m, roles_to_test) ==
  ResolveLoop([i \in 1..Len(m.transitions) |-> m.transitions[i].name],
              m.transitions, roles_to_test, 1, <<>>)

\* itertools.chain(*t.pre_states) + t.post_states + t.error_states
RECURSIVE Chain(_)
Chain(groups) == IF groups = <<>> THEN <<>> ELSE Head(groups) \o Chain(Tail(groups))

StateValuesOf(t) == Chain(t.pre_states) \o t.post_states \o t.error_states

RECURSIVE GatherStates(_, _)
GatherStates(values, states) ==
  IF values = <<>> THEN [states |-> states]
  ELSE IF Head(values).kind # "StateValue" THEN Raise("AttributeError")
  ELSE GatherStates(Tail(values),
         IF \E j \in 1..Len(states) : states[j] = Head(values).state
         THEN states ELSE Append(states, Head(values).state))

\* InitializeStates(transitions): the state names in dictionary order.
RECURSIVE InitializeStatesOf(_, _)
InitializeStatesOf(transitions, states) ==
  IF transitions = <<>> THEN [states |-> states]
  ELSE LET r == GatherStates(StateValuesOf(Head(transitions)), states) IN
       IF Raised(r) THEN r ELSE InitializeStatesOf(Tail(transitions), r.states)

Reverse(q) == [i \in 1..Len(q) |-> q[Len(q) + 1 - i]]

\* A faulty variant: the failed edge keeps its weight.
MarkNothing(g, edge) == g

\* attr['weight'] = float('inf')
MarkFailed(g, edge) == [g EXCEPT ![edge].weight = Inf]

\* The edge-index with the smallest weight between s and t: the first key
\* whose weight is below float('inf') and below every earlier one, else 0.
min_edge_i(g, s, t) ==
  IF StepWeight(g, s, t) >= Inf THEN 0
  ELSE SetMin({k \in MultiEdge(g, s, t) : g[<<s, t, k>>].weight = StepWeight(g, s, t)})

\* A faulty variant: the loop over new_path without its check for float('inf').
PathStackUnchecked(g, new_path, i, path_stack) ==
  [path_stack |-> [j \in 1..(Len(new_path) - 1) |->
                     <<new_path[j], new_path[j + 1], min_edge_i(g, new_path[j], new_path[j + 1])>>],
   aborted |-> FALSE]

\* The loop over new_path: path_stack, and whether the loop returned.
RECURSIVE PathStack(_, _, _, _)
PathStack(g, new_path, i, path_stack) ==
  IF i > Len(new_path) - 1 THEN [path_stack |-> path_stack, aborted |-> FALSE]
  ELSE LET s == new_path[i]
           t == new_path[i + 1]
       IN IF g[<<s, t, min_edge_i(g, s, t)>>].weight = Inf
          THEN [path_stack |-> path_stack, aborted |-> TRUE]
          ELSE PathStack(g, new_path, i + 1, Append(path_stack, <<s, t, min_edge_i(g, s, t)>>))

(***************************************************************************)
(* The library qualifiers (stl/lib.py).  An instance is a record kind,     *)
(* num, used_values; only UniqueString and UniqueInt use the last two.     *)
(* A string 'random-N' is <<"random", N>>, 'unique-N' is <<"unique", N>>,  *)
(* an integer N is <<"int", N>>, a boolean <<"bool", 0>> or <<"bool", 1>>, *)
(* a plain string <<"str", N>>.  random.randint(0, 999999) draws from      *)
(* 0..MaxRand.  Generate yields the set of [value, q] it may produce.      *)
(***************************************************************************)
QualifierKinds ==
  {"AnyOf", "RandomString", "UniqueString", "UniqueInt", "DifferentFrom", "RandomBool"}

NewQualifier(kind) == [kind |-> kind, num |-> 0, used_values |-> {}]

UniqueTag(q) == IF q.kind = "UniqueString" THEN "unique" ELSE "int"

\* The while loop of UniqueString.Generate and UniqueInt.Generate.
RECURSIVE UniqueLoop(_, _, _)
UniqueLoop(q, value, num) ==
  IF value \in q.used_values
  THEN UniqueLoop(q, <<UniqueTag(q), num>>, num + 1)
  ELSE [value |-> value,
        q |-> [q EXCEPT !.num = num, !.used_values = @ \cup {value}]]

Generate(q, args) ==
  CASE q.kind = "AnyOf" -> {[value |-> args[i], q |-> q] : i \in 1..Len(args)}
    [] q.kind = "RandomString" -> {[value |-> <<"random", r>>, q |-> q] : r \in 0..MaxRand}
    [] q.kind \in {"UniqueString", "UniqueInt"} ->
         {UniqueLoop(q, <<UniqueTag(q), q.num>>, q.num + 1)}
    [] q.kind = "DifferentFrom" ->
         {[value |-> <<"random", IF <<"random", r>> = args[1] THEN r + 1 ELSE r>>, q |-> q] :
            r \in 0..MaxRand}
    [] q.kind = "RandomBool" -> {[value |-> <<"bool", b>>, q |-> q] : b \in {0, 1}}

Validate(q, value, args) ==
  CASE q.kind = "AnyOf" -> [valid |-> \E i \in 1..Len(args) : args[i] = value, q |-> q]
    [] q.kind \in {"RandomString", "RandomBool"} -> [valid |-> TRUE, q |-> q]
    [] q.kind \in {"UniqueString", "UniqueInt"} ->
         [valid |-> value \notin q.used_values,
          q |-> [q EXCEPT !.used_values = @ \cup {value}]]
    [] q.kind = "DifferentFrom" -> [valid |-> value # args[1], q |-> q]

\* The argument tuples a qualifier is called with.
ArgsOf(kind) ==
  CASE kind = "AnyOf" ->
         {<<<<"str", 0>>>>, <<<<"str", 0>>, <<"str", 1>>>>, <<<<"int", 1>>, <<"int", 1>>>>}
    [] kind = "DifferentFrom" -> {<<<<"random", r>>>> : r \in 0..MaxRand}
    [] OTHER -> {<<>>}

\* The values handed to Validate from outside.
ValuesOf(kind) ==
  CASE kind = "AnyOf" -> {<<"str", 0>>, <<"str", 1>>, <<"int", 1>>}
    [] kind \in {"RandomString", "DifferentFrom"} -> {<<"random", r>> : r \in 0..MaxRand}
    [] kind = "UniqueString" -> {<<"unique", r>> : r \in 0..MaxRand}
    [] kind = "UniqueInt" -> {<<"int", r>> : r \in 0..MaxRand}
    [] kind = "RandomBool" -> {<<"bool", 0>>, <<"bool", 1>>}

(***************************************************************************)
(* Walks that cover a graph: what the planner is measured against.        *)
(***************************************************************************)
\* q is a walk of edges of g that starts and ends at v.
ClosedWalk(g, q, v) ==
  /\ \A i \in 1..Len(q) : q[i] \in DOMAIN g
  /\ \A i \in 1..(Len(q) - 1) : q[i][2] = q[i + 1][1]
  /\ q # <<>> => q[1][1] = v /\ q[Len(q)][2] = v

\* The length of a shortest closed walk from v0 that covers every edge of
\* g, by breadth-first search over (vertex, set of edges covered).
RECURSIVE CoverSearch(_, _, _, _)
CoverSearch(g, v0, F, n) ==
  IF <<v0, DOMAIN g>> \in F THEN n
  ELSE CoverSearch(g, v0,
         UNION {{<<e[2], f[2] \cup {e}>> : e \in {d \in DOMAIN g : d[1] = f[1]}} : f \in F},
         n + 1)

RECURSIVE SetToSeq(_)
SetToSeq(S) ==
  IF S = {} THEN <<>>
  ELSE LET x == CHOOSE y \in S : TRUE IN <<x>> \o SetToSeq(S \ {x})

OptimalLength(g, v0) == CoverSearch(g, v0, {<<v0, {}>>}, 0)

(***************************************************************************)
(* stl/levenshtein.py.  A string is a sequence of characters; the          *)
(* characters are two lower-case letters and the upper case of one.        *)
(***************************************************************************)
Chars == {"a", "b", "A"}

\* str.lower(), character by character
LowerChar(c) == IF c = "A" THEN "a" ELSE c

lower(s) == [i \in 1..Len(s) |-> LowerChar(s[i])]

Min3(x, y, z) == IF x <= y /\ x <= z THEN x ELSE IF y <= z THEN y ELSE z

\* A faulty variant: a substitution costs as much as keeping the character.
SubstitutionFree(x, y) == 0

\* cost = 0 if a[i-1] == b[j-1] else 1
SubstitutionCost(x, y) == IF x = y THEN 0 ELSE 1

\* The inner loop of distance for row i of dist: prev is row i - 1, ch is
\* a[i-1] and row the cells dist[i][0..j-1] filled so far.
RECURSIVE FillRow(_, _, _, _)
FillRow(prev, ch, b, row) ==
  IF Len(row) = Len(b) + 1 THEN row
  ELSE LET j == Len(row)
           cost == SubstitutionCost(ch, b[j])
       IN FillRow(prev, ch, b,
                  Append(row, Min3(prev[j + 1] + 1, row[j] + 1, prev[j] + cost)))

\* The outer loop of distance: the last row of dist.
RECURSIVE FillTable(_, _, _, _)
FillTable(a, b, i, prev) ==
  IF i > Len(a) THEN prev
  ELSE FillTable(a, b, i + 1, FillRow(prev, a[i], b, <<i>>))

\* distance(a, b)
distance(a0, b0) ==
  LET a == lower(a0)
      b == lower(b0)
  IN IF Len(a) = 0 THEN Len(b)
     ELSE IF Len(b) = 0 THEN Len(a)
     ELSE FillTable(a, b, 1, [j \in 1..(Len(b) + 1) |-> j - 1])[Len(b) + 1]

\* min(candidates, key=...): the first candidate with the smallest key.
RECURSIVE MinLoop(_, _, _, _)
MinLoop(target, candidates, i, best) ==
  IF i > Len(candidates) THEN best
  ELSE MinLoop(target, candidates, i + 1,
               IF distance(target, candidates[i]) < distance(target, best)
               THEN candidates[i] ELSE best)

\* closest_candidate(target, candidates); min() of an empty list raises.
closest_candidate(target, candidates) ==
  IF candidates = <<>> THEN Raise("ValueError")
  ELSE [value |-> MinLoop(target, candidates, 2, candidates[1])]

(***************************************************************************)
(* stl/parser_error.py and stl/error_handler.py.  The symbol stack of the  *)
(* parser is the sequence of the types of its symbols; a type is a string, *)
(* spelled out here character by character because the match is made on    *)
(* strings.                                                                *)
(***************************************************************************)
SymbolTypes ==
  {"$end", "defs", "CONST", "type", "NAME", "MODULE", "TRANSITION", "params", "=", "(", "param_values_without_paren",
   ")", "ARROW", "param_values", "{", "local_vars", "pre_states", "events", "role_events", "PRE_STATES", "[", ";"}

\* The characters of a symbol type.
Spelling(t) ==
  IF t = "$end" THEN <<"$", "e", "n", "d">> ELSE
  IF t = "defs" THEN <<"d", "e", "f", "s">> ELSE
  IF t = "CONST" THEN <<"C", "O", "N", "S", "T">> ELSE
  IF t = "type" THEN <<"t", "y", "p", "e">> ELSE
  IF t = "NAME" THEN <<"N", "A", "M", "E">> ELSE
  IF t = "MODULE" THEN <<"M", "O", "D", "U", "L", "E">> ELSE
  IF t = "TRANSITION" THEN <<"T", "R", "A", "N", "S", "I", "T", "I", "O", "N">> ELSE
  IF t = "params" THEN <<"p", "a", "r", "a", "m", "s">> ELSE
  IF t = "=" THEN <<"=">> ELSE
  IF t = "(" THEN <<"(">> ELSE
  IF t = "param_values_without_paren" THEN <<"p", "a", "r", "a", "m", "_", "v", "a", "l", "u", "e", "s", "_", "w", "i", "t", "h", "o", "u", "t", "_", "p", "a", "r", "e", "n">> ELSE
  IF t = ")" THEN <<")">> ELSE
  IF t = "ARROW" THEN <<"A", "R", "R", "O", "W">> ELSE
  IF t = "param_values" THEN <<"p", "a", "r", "a", "m", "_", "v", "a", "l", "u", "e", "s">> ELSE
  IF t = "{" THEN <<"{">> ELSE
  IF t = "local_vars" THEN <<"l", "o", "c", "a", "l", "_", "v", "a", "r", "s">> ELSE
  IF t = "pre_states" THEN <<"p", "r", "e", "_", "s", "t", "a", "t", "e", "s">> ELSE
  IF t = "events" THEN <<"e", "v", "e", "n", "t", "s">> ELSE
  IF t = "role_events" THEN <<"r", "o", "l", "e", "_", "e", "v", "e", "n", "t", "s">> ELSE
  IF t = "PRE_STATES" THEN <<"P", "R", "E", "_", "S", "T", "A", "T", "E", "S">> ELSE
  IF t = "[" THEN <<"[">> ELSE
  <<";">>

\* ' '.join(...)
RECURSIVE Join(_)
Join(types) ==
  IF types = <<>> THEN <<>>
  ELSE IF Len(types) = 1 THEN Spelling(types[1])
  ELSE Spelling(Head(types)) \o <<" ">> \o Join(Tail(types))

\* str.endswith
endswith(s, t) ==
  Len(t) <= Len(s) /\ SubSeq(s, Len(s) - Len(t) + 1, Len(s)) = t

\* ParserError._SymbolStackEndsWith
SymbolStackEndsWith(parser_symbol_stack, stack_pattern) ==
  endswith(Join(parser_symbol_stack), Join(stack_pattern))

\* ParserError.Matches; any tells that stack_patterns is None.
Matches(error, symstack) ==
  \/ error.any
  \/ \E k \in 1..Len(error.stack_patterns) :
       SymbolStackEndsWith(symstack, error.stack_patterns[k])

UNKNOWN_PARSER_ERROR ==
  [error_name |-> "unknown-parser-error", error_id |-> 200, any |-> TRUE,
   stack_patterns |-> <<>>]

MISSING_SEMICOLON ==
  [error_name |-> "missing-semicolon", error_id |-> 201, any |-> FALSE,
   stack_patterns |->
     << <<"CONST", "type", "NAME">>,
        <<"MODULE", "NAME">>,
        <<"TRANSITION", "NAME", "params", "=", "NAME", "(",
          "param_values_without_paren", ")">>,
        <<"NAME", "ARROW", "NAME", "param_values", "ARROW", "NAME">> >>]

MISSING_CLOSING_CURLY_BRACE ==
  [error_name |-> "missing-closing-curly-brace", error_id |-> 202, any |-> FALSE,
   stack_patterns |-> << <<"{">> >>]

MISSING_POST_STATES ==
  [error_name |-> "missing-post-states", error_id |-> 301, any |-> FALSE,
   stack_patterns |->
     << <<"TRANSITION", "NAME", "params", "{", "local_vars", "pre_states", "events">> >>]

MISSING_PRE_STATES ==
  [error_name |-> "missing-pre-states", error_id |-> 302, any |-> FALSE,
   stack_patterns |-> << <<"TRANSITION", "NAME", "params", "{">> >>]

EMPTY_PRE_STATES ==
  [error_name |-> "empty-pre-states", error_id |-> 303, any |-> FALSE,
   stack_patterns |->
     << <<"TRANSITION", "NAME", "params", "{", "local_vars", "PRE_STATES", "=", "[">> >>]

\* A faulty variant: the curly brace is looked for before the pre_states.
ERRORS_BRACE_FIRST ==
  <<MISSING_SEMICOLON, MISSING_POST_STATES, MISSING_CLOSING_CURLY_BRACE,
    MISSING_PRE_STATES, EMPTY_PRE_STATES, UNKNOWN_PARSER_ERROR>>

ALL_PARSER_ERRORS ==
  <<MISSING_SEMICOLON, MISSING_POST_STATES, MISSING_PRE_STATES,
    EMPTY_PRE_STATES, MISSING_CLOSING_CURLY_BRACE, UNKNOWN_PARSER_ERROR>>

\* next(error for error in _ALL_PARSER_ERRORS if error.Matches(parser));
\* next() raises StopIteration when there is none.
RECURSIVE FirstMatch(_, _)
FirstMatch(errors, symstack) ==
  IF errors = <<>> THEN Raise("StopIteration")
  ELSE IF Matches(Head(errors), symstack) THEN Head(errors)
  ELSE FirstMatch(Tail(errors), symstack)

\* ParserErrorHandler.GetError: the id of the error reported.
GetError(symstack) ==
  LET parser_error == FirstMatch(ALL_PARSER_ERRORS, symstack) IN
  IF Raised(parser_error) THEN parser_error ELSE [id |-> parser_error.error_id]

(***************************************************************************)
(* stl/module.py and the definition rules of stl/parser.py.  A module is   *)
(* its seven dictionaries, each a function from names to what is stored.   *)
(* A definition read from the input is a record: its category, its name,   *)
(* the line it is on (standing for the rest of its text), its parameters   *)
(* and its items (the fields of a role or message, the values of a state). *)
(***************************************************************************)
Categories ==
  {"consts", "roles", "states", "qualifiers", "messages", "events", "transitions"}

\* Module.__init__
NewModule == [c \in Categories |-> EmptyFun]

\* Module.HasDefinition
HasDefinition(m, name) == \E c \in Categories : name \in DOMAIN m[c]

\* m.<category>[name] = value
Store(m, c, name, value) ==
  [m EXCEPT ![c] = [n \in DOMAIN m[c] \cup {name} |-> IF n = name THEN value ELSE m[c][n]]]

\* p_params_without_paren, p_role_fields and p_names: the list built from
\* the items read so far.  A duplicate returns before p[0] is assigned, so
\* the list is None from then on, and the assertion fails on the next item.
RECURSIVE ListRule(_, _)
ListRule(items, sofar) ==
  IF items = <<>> THEN sofar
  ELSE IF sofar.none THEN Raise("AssertionError")
  ELSE IF \E k \in 1..Len(sofar.list) : sofar.list[k] = Head(items)
  THEN ListRule(Tail(items), [none |-> TRUE, list |-> <<>>])
  ELSE ListRule(Tail(items), [none |-> FALSE, list |-> Append(sofar.list, Head(items))])

\* p_params: [] without parameters, else what params_without_paren gave.
p_params(items) == ListRule(items, [none |-> FALSE, list |-> <<>>])

\* p_message_body: p[0] is assigned before the fields are compared, so a
\* duplicate field is left out and the list kept.
RECURSIVE p_message_body(_, _)
p_message_body(items, sofar) ==
  IF items = <<>> THEN sofar
  ELSE p_message_body(Tail(items),
         IF \E k \in 1..Len(sofar) : sofar[k] = Head(items)
         THEN sofar ELSE Append(sofar, Head(items)))

p_const_def(m, d) ==
  IF HasDefinition(m, d.name) THEN m
  ELSE Store(m, "consts", d.name, [line |-> d.line])

\* 'for f in p[4]' raises TypeError when role_fields is None.
p_role_def(m, d) ==
  LET fields == p_params(d.items) IN
  IF Raised(fields) THEN fields
  ELSE IF HasDefinition(m, d.name) THEN m
  ELSE IF fields.none THEN Raise("TypeError")
  ELSE Store(m, "roles", d.name, [line |-> d.line, fields |-> fields])

p_state_def(m, d) ==
  LET params == p_params(d.params)
      values == p_params(d.items)
  IN IF Raised(params) THEN params
     ELSE IF Raised(values) THEN values
     ELSE IF HasDefinition(m, d.name) THEN m
     ELSE Store(m, "states", d.name, [line |-> d.line, params |-> params, values |-> values])

p_message_def(m, d) ==
  IF HasDefinition(m, d.name) THEN m
  ELSE Store(m, "messages", d.name,
             [line |-> d.line, fields |-> p_message_body(d.items, <<>>)])

\* The three rules below store without asking HasDefinition.
p_qualifier_def(m, d) ==
  LET params == p_params(d.params) IN
  IF Raised(params) THEN params
  ELSE Store(m, "qualifiers", d.name, [line |-> d.line, params |-> params])

p_event_def(m, d) ==
  LET params == p_params(d.params) IN
  IF Raised(params) THEN params
  ELSE Store(m, "events", d.name, [line |-> d.line, params |-> params])

p_transition_def(m, d) ==
  LET params == p_params(d.params) IN
  IF Raised(params) THEN params
  ELSE Store(m, "transitions", d.name, [line |-> d.line, params |-> params])

\* def : const_def | role_def | state_def | message_def | qualifier_def
\*     | event_def | transition_def
p_def(m, d) ==
  CASE d.category = "consts" -> p_const_def(m, d)
    [] d.category = "roles" -> p_role_def(m, d)
    [] d.category = "states" -> p_state_def(m, d)
    [] d.category = "messages" -> p_message_def(m, d)
    [] d.category = "qualifiers" -> p_qualifier_def(m, d)
    [] d.category = "events" -> p_event_def(m, d)
    [] d.category = "transitions" -> p_transition_def(m, d)

(***************************************************************************)
(* stl/message.py: Message.ValidateDict.  A value is a record: its class   *)
(* (kind), the type_ of a local, of the role field a function gets or      *)
(* sets, or the qual_type of a resolved qualifier (type), the class of     *)
(* the object a function works on (obj), and the elements of a list or the *)
(* entries of a dictionary (elems).                                        *)
(***************************************************************************)
Val(kind, type, obj, elems) == [kind |-> kind, type |-> type, obj |-> obj, elems |-> elems]

\* isinstance(value, bool), isinstance(value, int), stl.base.IsString(value):
\* in Python bool is a subclass of int.
IsBool(value) == value.kind = "bool"

IsInt(value) == value.kind \in {"int", "bool"}

IsString(value) == value.kind = "string"

IsLocalVar(value, type_) == value.kind = "LocalVar" /\ value.type = type_

\* Message._IsValidFunc
IsValidFunc(value, type_) ==
  \/ value.kind = "FuncGetField" /\ value.obj = "Role" /\ value.type = type_
  \/ value.kind = "FuncSet" /\ value.obj \in {"LocalVar", "Role"} /\ value.type = type_
  \/ value.kind = "Resolved" /\ value.type = type_

\* The message found for a field of type mSub, in self.messages or in one of
\* outer_messages: it has one required field n of type int.
SubMessage ==
  [name |-> "mSub", messages |-> {},
   fields |-> <<[name |-> "n", type_ |-> "int", optional |-> FALSE, repeated |-> FALSE]>>]

RECURSIVE ValidateDict(_, _, _)
RECURSIVE ValidateField(_, _, _, _)
RECURSIVE ValidateElements(_, _, _, _)

\* Message.ValidateDict(dict_value, outer_messages): the loop over
\* self.fields from the k-th on.
ValidateDict(msg, dict_value, outer_messages) ==
  LET Loop[k \in 1..(Len(msg.fields) + 1)] ==
        IF k > Len(msg.fields) THEN [valid_dict |-> EmptyFun]
        ELSE LET f == msg.fields[k] IN
             IF f.name \in DOMAIN dict_value
             THEN LET v == ValidateField(msg, f, dict_value[f.name], outer_messages) IN
                  IF Raised(v) THEN v
                  ELSE LET rest == Loop[k + 1] IN
                       IF Raised(rest) THEN rest
                       ELSE [valid_dict |-> (f.name :> v.value) @@ rest.valid_dict]
             ELSE IF ~f.optional THEN Raise("NameError")
             ELSE Loop[k + 1]
  IN Loop[1]

\* [self._ValidateField(temp_field, e, outer_messages) for e in value]
ValidateElements(msg, temp_field, elems, outer_messages) ==
  IF elems = <<>> THEN [value |-> <<>>]
  ELSE LET v == ValidateField(msg, temp_field, Head(elems), outer_messages) IN
       IF Raised(v) THEN v
       ELSE LET rest == ValidateElements(msg, temp_field, Tail(elems), outer_messages) IN
            IF Raised(rest) THEN rest ELSE [value |-> <<v.value>> \o rest.value]

\* Message._ValidateField(field, value, outer_messages)
ValidateField(msg, field, value, outer_messages) ==
  IF field.repeated
  THEN IF value.kind # "list" THEN Raise("ValueError")
       ELSE LET r == ValidateElements(msg, [field EXCEPT !.repeated = FALSE, !.optional = FALSE],
                                      value.elems, outer_messages)
            IN IF Raised(r) THEN r ELSE [value |-> Val("list", "", "", r.value)]
  ELSE IF field.type_ = "bool"
  THEN IF value.kind = "None" \/ IsBool(value) \/ IsLocalVar(value, "bool")
          \/ IsValidFunc(value, "bool")
       THEN [value |-> value] ELSE Raise("ValueError")
  ELSE IF field.type_ = "int"
  THEN IF value.kind = "None" \/ IsInt(value) \/ IsLocalVar(value, "int")
          \/ IsValidFunc(value, "int")
       THEN [value |-> value] ELSE Raise("ValueError")
  ELSE IF field.type_ = "string"
  THEN IF value.kind = "None" \/ IsString(value) \/ IsLocalVar(value, "string")
          \/ IsValidFunc(value, "string")
       THEN [value |-> value]
       ELSE IF value.kind = "MessageValue" THEN [value |-> value]
       ELSE Raise("ValueError")
  ELSE IF field.type_ \notin msg.messages \cup outer_messages THEN Raise("NameError")
  ELSE IF value.kind # "dict" THEN Raise("ValueError")
  ELSE LET r == ValidateDict(SubMessage, value.elems, outer_messages \cup msg.messages) IN
       IF Raised(r) THEN r ELSE [value |-> Val("dict", "", "", r.valid_dict)]

(***************************************************************************)
(* State.                                                                  *)
(***************************************************************************)
VARIABLES
  pc,            \* the step the run is at
  graph,         \* transition_graph: edge <<s, t, key>> -> attributes
  initial,       \* the initial vertex
  plan,          \* what MinEdgeCoverCircuit computed
  optimum,       \* the length of a shortest closed walk covering the graph
  module,        \* the loaded module: name, consts, states, transitions
  manifest,      \* the manifest: has_constants, constants, roles_to_test
  transitions,   \* the resolved transitions, in dictionary order
  states,        \* the states gathered by InitializeStates
  vertexes,      \* the vertices BuildTransitionGraph found
  circuit_stack, \* the edges still to pop, the next one last
  success,       \* the local success of TraverseGraph
  result,        \* how the run ended
  ran,           \* the names of the transitions whose Run was invoked
  failed,        \* the edges whose transition returned false
  last,          \* what the last iteration of the traversal loop did
  qual,          \* a qualifier instance
  calls,         \* how many calls were made on it
  qcall,         \* the last call made on it: op, args, value, valid
  lev,           \* a call of closest_candidate: target, candidates, op, result
  perr,          \* a call of ParserErrorHandler.GetError: symstack, op, id
  parse,         \* a parse: the module so far, the number of definitions read,
                 \* the exception raised, and the module the same definitions
                 \* give once the later duplicates are taken out of them
  mv,            \* a call of Message.ValidateDict: message, dict_value, op, result
  bip,           \* a call of Context.MaxBipartiteMatching: left, right, w, op, matches
  frames         \* a call of Transition.Resolve: keys, stack, op

planVars == <<pc, graph, initial, plan, optimum>>

runVars == <<module, manifest, transitions, states, vertexes, circuit_stack,
             success, result, ran, failed, last>>

qualVars == <<qual, calls, qcall>>

libVars == <<lev, perr, parse, mv, bip, frames>>

vars == <<planVars, runVars, qualVars, libVars>>

NoCall == [op |-> "none", args |-> <<>>, value |-> <<"none", 0>>, valid |-> TRUE]

NoLev == [op |-> "none", target |-> <<>>, candidates |-> <<>>, result |-> <<>>]

NoError == [op |-> "none", symstack |-> <<>>, id |-> 0]

\* The variables of the library functions while none of them is looked at.
NoParse == [module |-> NewModule, kept |-> NewModule, n |-> 0, error |-> ""]

NoValidation == [op |-> "none", message |-> SubMessage, dict_value |-> EmptyFun,
                 result |-> EmptyFun]

NoMatching == [op |-> "none", left |-> {}, right |-> {}, w |-> EmptyFun, matches |-> EmptyFun]

NoFrames == [op |-> "none", keys |-> <<>>, stack |-> <<>>]

\* The variables of the library functions while none of them is looked at.
LibIdle ==
  /\ lev = NoLev
  /\ perr = NoError
  /\ parse = NoParse
  /\ mv = NoValidation
  /\ bip = NoMatching
  /\ frames = NoFrames

\* The qualifier variables while no qualifier is looked at.
QualIdle ==
  /\ qual = NewQualifier("none")
  /\ calls = 0
  /\ qcall = NoCall

NoResult == [kind |-> "none", value |-> FALSE, error |-> "", at |-> ""]

NoStep == [kind |-> "none", edge |-> <<0, 0, 0>>, events |-> <<>>, returns |-> <<>>,
           invoked |-> <<>>, result |-> FALSE, error_vertex_id |-> 0,
           new_path |-> <<>>, path_stack |-> <<>>, aborted |-> FALSE,
           pending |-> <<>>, failed_before |-> {}, from |-> 0, at |-> 0]

NoModule == [name |-> "", consts |-> EmptyFun, states |-> EmptyFun, transitions |-> <<>>]

NoManifest == [has_constants |-> FALSE, constants |-> {}, roles_to_test |-> {}]

\* The driver's variables while the planner is looked at on its own.
RunIdle ==
  /\ module = NoModule
  /\ manifest = NoManifest
  /\ transitions = <<>>
  /\ states = <<>>
  /\ vertexes = <<>>
  /\ circuit_stack = <<>>
  /\ success = TRUE
  /\ result = NoResult
  /\ ran = {}
  /\ failed = {}
  /\ last = NoStep

NoPlan == [matches |-> EmptyFun, sub_path |-> EmptyFun, circuit |-> <<>>]

(***************************************************************************)
(* The planner on its own: every multigraph of at most MaxEdges edges on   *)
(* three nodes, and the four-node cycle with at most MaxExtra more edges.  *)
(***************************************************************************)
RECURSIVE EdgeBags(_, _)
EdgeBags(P, n) ==
  IF n = 0 THEN {[p \in P |-> 0]}
  ELSE LET B == EdgeBags(P, n - 1) IN
       B \cup {[b EXCEPT ![p] = @ + 1] : b \in B, p \in P}

BagGraph(P, b) ==
  [e \in UNION {{<<p[1], p[2], k>> : k \in 0..(b[p] - 1)} : p \in P} |->
     [weight |-> 1, transition |-> 0, error_vertex_id |-> e[1]]]

\* The pairs of distinct nodes among four, and the cycle 1 -> 2 -> 3 -> 4 -> 1.
Pairs4 == {p \in (1..4) \X (1..4) : p[1] # p[2]}

Cycle4 == [p \in Pairs4 |-> IF p[2] = (p[1] % 4) + 1 THEN 1 ELSE 0]

PlannerGraphs ==
  {BagGraph((1..3) \X (1..3), b) : b \in EdgeBags((1..3) \X (1..3), MaxEdges)}
  \cup {BagGraph(Pairs4, [p \in Pairs4 |-> b[p] + Cycle4[p]]) :
          b \in EdgeBags(Pairs4, MaxExtra)}

InitPlan ==
  /\ pc = "plan"
  /\ graph \in PlannerGraphs \ {EmptyFun}
  /\ initial \in GNodes(graph)
  /\ plan = NoPlan
  /\ optimum = 0
  /\ RunIdle
  /\ QualIdle
  /\ LibIdle

PlanCircuit ==
  /\ pc = "plan"
  /\ is_strongly_connected(graph)
  /\ optimum' = OptimalLength(graph, initial)
  /\ \E r \in MinEdgeCoverCircuit(graph, initial) : plan' = r
  /\ pc' = "planned"
  /\ UNCHANGED <<graph, initial, runVars, qualVars, libVars>>

PlanRaise ==
  /\ pc = "plan"
  /\ ~is_strongly_connected(graph)
  /\ pc' = "plan_error"
  /\ UNCHANGED <<graph, initial, plan, optimum, runVars, qualVars, libVars>>

NextPlan == PlanCircuit \/ PlanRaise

SpecPlan == InitPlan /\ [][NextPlan]_vars

(***************************************************************************)
(* A run of the driver (RunTest) on one loaded module.  The module has two *)
(* states, 1 with the values 0, 1, 2 and 2 with the values 0, 1, and a     *)
(* choice of transitions out of Shapes.  A module in the "expand" style    *)
(* declares every transition as <<"t", i>> = <<"b", i>>(x) over a          *)
(* parameterised <<"b", i>>(p) { ... }; in the "body" style it declares    *)
(* <<"t", i>> { ... } itself; the "alias" styles add                       *)
(* 'transition <<"a", i>> = <<"t", i>>;' after or before <<"t", i>>.        *)
(* Roles rA and rB exist and every event goes from rA to rB; the manifest  *)
(* names the roles under test, at least one (GetRolesToTest).              *)
(***************************************************************************)
SV(state, value) == [kind |-> "StateValueInTransition", state |-> state, value |-> value]

Shape(pre, post, err) == [pre_states |-> pre, post_states |-> post, error_states |-> err]

Shapes ==
  << Shape(<<<<SV(1, 0)>>>>, <<SV(1, 1)>>, <<>>),
     Shape(<<<<SV(1, 1)>>>>, <<SV(1, 0)>>, <<>>),
     Shape(<<<<SV(1, 0)>>>>, <<SV(1, 1)>>, <<>>),
     Shape(<<<<SV(1, 1)>>>>, <<SV(1, 0)>>, <<>>),
     Shape(<<<<SV(1, 0)>>>>, <<SV(1, 1)>>, <<SV(1, 1)>>),
     Shape(<<<<SV(1, 0)>>>>, <<SV(1, 1)>>, <<SV(1, 2)>>),
     Shape(<<<<SV(1, 0), SV(1, 2)>>>>, <<SV(1, 1)>>, <<SV(1, 2)>>),
     Shape(<<<<SV(1, 1)>>>>, <<SV(1, 2)>>, <<>>),
     Shape(<<<<SV(1, 2)>>>>, <<SV(1, 0)>>, <<>>),
     Shape(<<<<SV(1, 2)>>>>, <<SV(1, 1)>>, <<>>),
     Shape(<<<<SV(2, 0)>>>>, <<SV(2, 1)>>, <<>>),
     Shape(<<<<SV(2, 1)>>>>, <<SV(2, 0)>>, <<SV(1, 0)>>) >>

\* The shapes over state 1 alone, and those that also move state 2.
OneStateShapes == {i \in 1..Len(Shapes) : \A v \in SeqRange(StateValuesOf(Shapes[i])) : v.state = 1}

TwoStateShapes == (1..Len(Shapes)) \ OneStateShapes

DeclaredStates == << <<0, 1, 2>>, <<0, 1>> >>

EventsOf(n) ==
  [i \in 1..n |-> [kind |-> "EventInTransition", id |-> i,
                   source |-> "rA", target |-> "rB", expand |-> TRUE]]

Body(name, params, shape, n) ==
  [name |-> name, params |-> params, expand |-> <<>>,
   pre_states |-> shape.pre_states, events |-> EventsOf(n),
   post_states |-> shape.post_states, error_states |-> shape.error_states]

Expansion(name, of) ==
  [name |-> name, params |-> 0, expand |-> <<[name |-> of, values |-> <<"x">>]>>,
   pre_states |-> <<>>, events |-> <<>>, post_states |-> <<>>, error_states |-> <<>>]

\* transition name = of;  (an expansion without values)
Alias(name, of) ==
  [name |-> name, params |-> 0, expand |-> <<[name |-> of, values |-> <<>>]>>,
   pre_states |-> <<>>, events |-> <<>>, post_states |-> <<>>, error_states |-> <<>>]

\* How many events the i-th shape is given: 1, 2, ... in turn.
EventCount(i) == ((i - 1) % MaxEvents) + 1

RECURSIVE Definitions(_, _, _)
Definitions(S, i, style) ==
  IF i > Len(Shapes) THEN <<>>
  ELSE (IF i \notin S THEN <<>>
        ELSE IF style = "expand"
        THEN <<Body(<<"b", i>>, 1, Shapes[i], EventCount(i)),
               Expansion(<<"t", i>>, <<"b", i>>)>>
        ELSE IF style = "body"
        THEN <<Body(<<"t", i>>, 0, Shapes[i], EventCount(i))>>
        ELSE IF style = "alias"
        THEN <<Body(<<"t", i>>, 0, Shapes[i], EventCount(i)),
               Alias(<<"a", i>>, <<"t", i>>)>>
        ELSE IF style = "alias_first"
        THEN <<Alias(<<"a", i>>, <<"t", i>>),
               Body(<<"t", i>>, 0, Shapes[i], EventCount(i))>>
        ELSE <<Body(<<"b", i>>, 1, Shapes[i], EventCount(i)),
               Expansion(<<"t", i>>, <<"b", i>>),
               Alias(<<"a", i>>, <<"t", i>>)>>)
       \o Definitions(S, i + 1, style)

ModuleOf(S, style, consts) ==
  [name |-> "m", consts |-> consts, states |-> DeclaredStates,
   transitions |-> Definitions(S, 1, style)]

ConstNames == {"k1", "k2"}

ConstKeys == {<<"m", "k1">>, <<"m", "k2">>, <<"x", "k1">>}

\* Modules without constants under a manifest without a constants entry.
PlainRuns ==
  {[module |-> ModuleOf(S, style, EmptyFun),
    manifest |-> [has_constants |-> FALSE, constants |-> {}, roles_to_test |-> {"rA"}]] :
     S \in {T \in SUBSET OneStateShapes : T # {} /\ Cardinality(T) <= MaxTransitions}
           \cup {TwoStateShapes \cup T : T \in SUBSET {1, 2}},
     style \in {"expand", "body"}}

\* Small modules in every style, among them 'transition a = t;' declared
\* after or before t, under every choice of the roles under test.
RoleRuns ==
  {[module |-> ModuleOf(S, style, EmptyFun),
    manifest |-> [has_constants |-> FALSE, constants |-> {}, roles_to_test |-> roles]] :
     S \in (SUBSET {1, 2}) \ {{}},
     style \in {"expand", "body", "alias", "alias_first", "alias_expand"},
     roles \in (SUBSET {"rA", "rB"}) \ {{}}}

Manifests ==
  {[has_constants |-> FALSE, constants |-> {}, roles_to_test |-> {"rA"}]}
  \cup {[has_constants |-> TRUE, constants |-> keys, roles_to_test |-> {"rA"}] :
          keys \in SUBSET ConstKeys}

\* One module with every declaration of constants under every manifest.
ConstRuns ==
  {[module |-> ModuleOf({1, 2}, "expand", consts), manifest |-> mf] :
     consts \in UNION {[D -> {"None", "val"}] : D \in SUBSET ConstNames},
     mf \in Manifests}

Init ==
  /\ pc = "FillInConstants"
  /\ \E r \in PlainRuns \cup RoleRuns \cup ConstRuns : module = r.module /\ manifest = r.manifest
  /\ graph = EmptyFun
  /\ initial = 0
  /\ plan = NoPlan
  /\ optimum = 0
  /\ transitions = <<>>
  /\ states = <<>>
  /\ vertexes = <<>>
  /\ circuit_stack = <<>>
  /\ success = TRUE
  /\ result = NoResult
  /\ ran = {}
  /\ failed = {}
  /\ last = NoStep
  /\ QualIdle
  /\ LibIdle

Raises(error, at) == [kind |-> "raised", value |-> FALSE, error |-> error, at |-> at]

\* A faulty variant: return True whatever success is.
ReturnsTrue(value) == [kind |-> "returned", value |-> TRUE, error |-> "", at |-> "TraverseGraph"]

Returns(value) == [kind |-> "returned", value |-> value, error |-> "", at |-> "TraverseGraph"]

\* FillInConstants(modules, manifest)
FillInConstants ==
  /\ pc = "FillInConstants"
  /\ IF ~manifest.has_constants
     THEN pc' = "ResolveTransitions" /\ UNCHANGED <<module, result>>
     ELSE LET bad == {key \in manifest.constants : ConstKeyError(module, key) # ""}
              good == manifest.constants \ bad
          IN IF bad # {}
             THEN \E key \in bad : \E done \in SUBSET good :
                    /\ module' = BindConsts(module, done)
                    /\ result' = Raises(ConstKeyError(module, key), "FillInConstants")
                    /\ pc' = "raised"
             ELSE /\ module' = BindConsts(module, good)
                  /\ IF UndefinedConsts(module') # {}
                     THEN result' = Raises("RuntimeError", "FillInConstants") /\ pc' = "raised"
                     ELSE pc' = "ResolveTransitions" /\ UNCHANGED result
  /\ UNCHANGED <<graph, initial, plan, optimum, manifest, transitions, states, vertexes,
                 circuit_stack, success, ran, failed, last, qualVars, libVars>>

\* ResolveTransitions(modules, roles_to_test)
ResolveTransitions ==
  /\ pc = "ResolveTransitions"
  /\ LET r == ResolveTransitionsOf(module, manifest.roles_to_test) IN
     /\ module' = [module EXCEPT !.transitions = r.defs]
     /\ IF Raised(r)
        THEN result' = Raises(r.raised, "ResolveTransitions") /\ pc' = "raised"
             /\ UNCHANGED transitions
        ELSE transitions' = r.transitions /\ pc' = "InitializeStates" /\ UNCHANGED result
  /\ UNCHANGED <<graph, initial, plan, optimum, manifest, states, vertexes,
                 circuit_stack, success, ran, failed, last, qualVars, libVars>>

\* InitializeStates(transitions)
InitializeStates ==
  /\ pc = "InitializeStates"
  /\ LET r == InitializeStatesOf(transitions, <<>>) IN
     IF Raised(r)
     THEN result' = Raises(r.raised, "InitializeStates") /\ pc' = "raised"
          /\ UNCHANGED states
     ELSE states' = r.states /\ pc' = "TraverseGraph" /\ UNCHANGED result
  /\ UNCHANGED <<graph, initial, plan, optimum, module, manifest, transitions, vertexes,
                 circuit_stack, success, ran, failed, last, qualVars, libVars>>

\* TraverseGraph up to its loop: the graph is built and the circuit planned.
TraverseBegin ==
  /\ pc = "TraverseGraph"
  /\ LET b == BuildTransitionGraph(transitions, states, module.states) IN
     /\ graph' = b.nx_graph
     /\ initial' = b.initial_vertex
     /\ vertexes' = b.vertexes
     /\ IF b.nx_graph = EmptyFun
        THEN /\ result' = Raises("NetworkXPointlessConcept", "MinEdgeCoverCircuit")
             /\ pc' = "raised"
             /\ UNCHANGED <<plan, circuit_stack>>
        ELSE IF ~is_strongly_connected(b.nx_graph)
        THEN /\ result' = Raises("RuntimeError", "MinEdgeCoverCircuit")
             /\ pc' = "raised"
             /\ UNCHANGED <<plan, circuit_stack>>
        ELSE \E r \in MinEdgeCoverCircuit(b.nx_graph, b.initial_vertex) :
               /\ plan' = r
               /\ circuit_stack' = Reverse(r.circuit)
               /\ pc' = "loop"
               /\ UNCHANGED result
  /\ success' = TRUE
  /\ UNCHANGED <<optimum, module, manifest, transitions, states, ran, failed, last, qualVars, libVars>>

\* The rest of an iteration once the popped edge has failed or is skipped:
\* g and ok are the graph and success by then, step what was done so far.
\* The step records in from the vertex whose states the system under test
\* was in before the iteration and in at the vertex it is in after it: the
\* target of an edge that passed, the error vertex of an edge that failed.
Reroute(edge, pending, g, ok, step) ==
  LET error_vertex_id == graph[edge].error_vertex_id
      paths == shortest_path(g, error_vertex_id, edge[2])
      at == IF step.kind = "failed" THEN error_vertex_id ELSE step.from
  IN /\ graph' = g
     /\ success' = ok
     /\ IF paths = {}
        THEN /\ result' = Raises("NodeNotFound", "TraverseGraph")
             /\ pc' = "raised"
             /\ circuit_stack' = pending
             /\ last' = [step EXCEPT !.error_vertex_id = error_vertex_id, !.at = at]
        ELSE \E new_path \in paths :
               LET ps == PathStack(g, new_path, 1, <<>>) IN
               /\ last' = [step EXCEPT !.error_vertex_id = error_vertex_id,
                                       !.at = at,
                                       !.new_path = new_path,
                                       !.path_stack = ps.path_stack,
                                       !.aborted = ps.aborted]
               /\ IF ps.aborted
                  THEN /\ result' = Returns(ok)
                       /\ pc' = "returned"
                       /\ circuit_stack' = pending
                  ELSE /\ circuit_stack' = pending \o Reverse(ps.path_stack)
                       /\ UNCHANGED <<pc, result>>

\* One iteration of "while circuit_stack".
TraverseLoop ==
  /\ pc = "loop"
  /\ circuit_stack # <<>>
  /\ LET edge == circuit_stack[Len(circuit_stack)]
         pending == SubSeq(circuit_stack, 1, Len(circuit_stack) - 1)
         transition == transitions[graph[edge].transition]
         step == [NoStep EXCEPT !.edge = edge, !.pending = pending,
                                !.failed_before = failed, !.events = transition.events,
                                !.from = IF last.kind = "none" THEN initial ELSE last.at]
     IN IF graph[edge].weight # Inf
        THEN \E returns \in [1..Len(transition.events) -> {"True", "False", "None"}] :
               LET run == TransitionRun(transition.events, returns)
                   done == [step EXCEPT !.returns = returns, !.invoked = run.invoked,
                                        !.result = run.result]
               IN /\ ran' = ran \cup {transition.name}
                  /\ IF run.result
                     THEN /\ circuit_stack' = pending
                          /\ last' = [done EXCEPT !.kind = "passed", !.at = edge[2]]
                          /\ UNCHANGED <<pc, graph, success, result, failed>>
                     ELSE /\ failed' = failed \cup {edge}
                          /\ Reroute(edge, pending, MarkFailed(graph, edge),
                                     FALSE, [done EXCEPT !.kind = "failed"])
        ELSE /\ Reroute(edge, pending, graph, success, [step EXCEPT !.kind = "skipped"])
             /\ UNCHANGED <<ran, failed>>
  /\ UNCHANGED <<initial, plan, optimum, module, manifest, transitions, states, vertexes,
                 qualVars, libVars>>

\* "while circuit_stack" ends: return success.
TraverseReturn ==
  /\ pc = "loop"
  /\ circuit_stack = <<>>
  /\ result' = Returns(success)
  /\ pc' = "returned"
  /\ UNCHANGED <<graph, initial, plan, optimum, module, manifest, transitions, states,
                 vertexes, circuit_stack, success, ran, failed, last, qualVars, libVars>>

Next ==
  \/ FillInConstants
  \/ ResolveTransitions
  \/ InitializeStates
  \/ TraverseBegin
  \/ TraverseLoop
  \/ TraverseReturn

Spec == Init /\ [][Next]_vars

\* The runs whose traversal is followed to its end: the modules of one state
\* and the largest module of two, without constants, every transition
\* declared by expansion.
TraversalRuns ==
  {[module |-> ModuleOf(S, "expand", EmptyFun),
    manifest |-> [has_constants |-> FALSE, constants |-> {}, roles_to_test |-> {"rA"}]] :
     S \in {T \in SUBSET OneStateShapes : T # {} /\ Cardinality(T) <= MaxTransitions}
           \cup {TwoStateShapes \cup {1, 2}}}

InitFair == Init /\ \E r \in TraversalRuns : module = r.module /\ manifest = r.manifest

\* TraverseGraph is one thread running "while circuit_stack": an iteration
\* that can run does run, and so does the return after the loop.
SpecFair == InitFair /\ [][Next]_vars /\ WF_vars(TraverseLoop) /\ WF_vars(TraverseReturn)

(***************************************************************************)
(* One qualifier instance of the library under any calls.                  *)
(***************************************************************************)
InitQual ==
  /\ \E kind \in QualifierKinds : qual = NewQualifier(kind)
  /\ calls = 0
  /\ qcall = NoCall
  /\ pc = "qualifier"
  /\ graph = EmptyFun
  /\ initial = 0
  /\ plan = NoPlan
  /\ optimum = 0
  /\ RunIdle
  /\ LibIdle

\* q.Generate(*args)
QGenerate ==
  /\ calls < MaxCalls
  /\ \E args \in ArgsOf(qual.kind) : \E g \in Generate(qual, args) :
       /\ qual' = g.q
       /\ qcall' = [op |-> "Generate", args |-> args, value |-> g.value, valid |-> TRUE]
  /\ calls' = calls + 1
  /\ UNCHANGED <<planVars, runVars, libVars>>

\* q.Validate(value, *args) of a value from outside
QValidate ==
  /\ calls < MaxCalls
  /\ \E args \in ArgsOf(qual.kind) : \E value \in ValuesOf(qual.kind) :
       LET v == Validate(qual, value, args) IN
       /\ qual' = v.q
       /\ qcall' = [op |-> "Validate", args |-> args, value |-> value, valid |-> v.valid]
  /\ calls' = calls + 1
  /\ UNCHANGED <<planVars, runVars, libVars>>

\* q.Validate(q.Generate(*args), *args)
QValidateGenerated ==
  /\ calls < MaxCalls
  /\ \E args \in ArgsOf(qual.kind) : \E g \in Generate(qual, args) :
       LET v == Validate(g.q, g.value, args) IN
       /\ qual' = v.q
       /\ qcall' = [op |-> "ValidateGenerated", args |-> args, value |-> g.value,
                    valid |-> v.valid]
  /\ calls' = calls + 1
  /\ UNCHANGED <<planVars, runVars, libVars>>

NextQual == QGenerate \/ QValidate \/ QValidateGenerated

SpecQual == InitQual /\ [][NextQual]_vars

(***************************************************************************)
(* closest_candidate on its own: every target up to MaxStr characters and  *)
(* every list of at most two candidates of up to MaxStr characters.        *)
(***************************************************************************)
Words == UNION {[1..n -> Chars] : n \in 0..MaxStr}

CandidateLists ==
  {<<>>} \cup {<<x>> : x \in Words} \cup {<<x, y>> : x \in Words, y \in Words}

InitLev ==
  /\ \E target \in Words : \E candidates \in CandidateLists :
       lev = [op |-> "none", target |-> target, candidates |-> candidates,
              result |-> <<>>]
  /\ pc = "levenshtein"
  /\ graph = EmptyFun
  /\ initial = 0
  /\ plan = NoPlan
  /\ optimum = 0
  /\ RunIdle
  /\ QualIdle
  /\ perr = NoError
  /\ parse = NoParse
  /\ mv = NoValidation
  /\ bip = NoMatching
  /\ frames = NoFrames

\* stl.levenshtein.closest_candidate(target, candidates)
ClosestCandidate ==
  /\ pc = "levenshtein"
  /\ lev.op = "none"
  /\ LET r == closest_candidate(lev.target, lev.candidates) IN
     lev' = IF Raised(r)
            THEN [lev EXCEPT !.op = "raised", !.result = r.raised]
            ELSE [lev EXCEPT !.op = "returned", !.result = r.value]
  /\ UNCHANGED <<planVars, runVars, qualVars, perr, parse, mv, bip, frames>>

NextLev == ClosestCandidate

SpecLev == InitLev /\ [][NextLev]_vars

(***************************************************************************)
(* ParserErrorHandler.GetError on its own.  The symbol stack is $end, up   *)
(* to MaxPrefix more symbols, and then nothing, a documented pattern, or a *)
(* documented pattern with one of its symbols replaced by another.         *)
(***************************************************************************)
DocumentedPatterns ==
  UNION {SeqRange(ALL_PARSER_ERRORS[k].stack_patterns) : k \in 1..Len(ALL_PARSER_ERRORS)}

Tails ==
  {<<>>} \cup UNION {{[p EXCEPT ![k] = t] : k \in 1..Len(p), t \in SymbolTypes} :
                      p \in DocumentedPatterns}

SymbolStacks ==
  {<<"$end">> \o prefix \o tail :
     prefix \in UNION {[1..n -> {"defs", "{", "NAME"}] : n \in 0..MaxPrefix},
     tail \in Tails}

InitErr ==
  /\ \E symstack \in SymbolStacks : perr = [op |-> "none", symstack |-> symstack, id |-> 0]
  /\ pc = "parser_error"
  /\ graph = EmptyFun
  /\ initial = 0
  /\ plan = NoPlan
  /\ optimum = 0
  /\ RunIdle
  /\ QualIdle
  /\ lev = NoLev
  /\ parse = NoParse
  /\ mv = NoValidation
  /\ bip = NoMatching
  /\ frames = NoFrames

\* ParserErrorHandler.GetError(filename, parser, lexer)
ReportError ==
  /\ pc = "parser_error"
  /\ perr.op = "none"
  /\ LET r == GetError(perr.symstack) IN
     perr' = IF Raised(r) THEN [perr EXCEPT !.op = "raised"]
             ELSE [perr EXCEPT !.op = "returned", !.id = r.id]
  /\ UNCHANGED <<planVars, runVars, qualVars, lev, parse, mv, bip, frames>>

NextErr == ReportError

SpecErr == InitErr /\ [][NextErr]_vars

(***************************************************************************)
(* The parser reading the definitions of one module, one after the other.  *)
(* Two names are used, so that a name can be defined again in the same or  *)
(* in another category; parameter and item lists may repeat a name.        *)
(***************************************************************************)
DefNames == {"x", "y"}

ParamInputs == {<<>>, <<"p">>, <<"p", "q">>, <<"p", "p">>, <<"p", "p", "q">>}

ItemInputs == {<<"f">>, <<"f", "g">>, <<"f", "f">>}

\* The definitions of category c that may come on a line.
DefInputs(c, line) ==
  {[category |-> c, name |-> name, line |-> line, params |-> params, items |-> items] :
     name \in DefNames,
     params \in IF c \in {"qualifiers", "events", "transitions"} THEN ParamInputs
                ELSE IF c = "states" THEN {<<>>, <<"p", "p">>} ELSE {<<>>},
     items \in IF c \in {"states", "messages"} THEN ItemInputs
               ELSE IF c = "roles" THEN ItemInputs \cup {<<>>} ELSE {<<>>}}

\* A list without the later occurrences of what it already has.
RECURSIVE FirstOccurrences(_)
FirstOccurrences(items) ==
  IF items = <<>> THEN <<>>
  ELSE LET front == FirstOccurrences(SubSeq(items, 1, Len(items) - 1))
           x == items[Len(items)]
       IN IF \E k \in 1..Len(front) : front[k] = x THEN front ELSE Append(front, x)

InitParse ==
  /\ parse = NoParse
  /\ mv = NoValidation
  /\ pc = "parse"
  /\ graph = EmptyFun
  /\ initial = 0
  /\ plan = NoPlan
  /\ optimum = 0
  /\ RunIdle
  /\ QualIdle
  /\ lev = NoLev
  /\ perr = NoError
  /\ bip = NoMatching
  /\ frames = NoFrames

\* The parser reduces one more definition of category c by its rule; kept
\* follows the input without its later duplicates.
Reduce(c) ==
  /\ pc = "parse"
  /\ parse.n < MaxDefs
  /\ \E d \in DefInputs(c, parse.n + 1) :
       LET r == p_def(parse.module, d)
           clean == [d EXCEPT !.params = FirstOccurrences(d.params),
                              !.items = FirstOccurrences(d.items)]
           kept == IF HasDefinition(parse.kept, d.name) THEN parse.kept
                   ELSE p_def(parse.kept, clean)
       IN IF Raised(r)
          THEN /\ parse' = [parse EXCEPT !.n = parse.n + 1, !.error = r.raised, !.kept = kept]
               /\ pc' = "parse_error"
          ELSE /\ parse' = [parse EXCEPT !.n = parse.n + 1, !.module = r, !.kept = kept]
               /\ pc' = pc
  /\ UNCHANGED <<graph, initial, plan, optimum, runVars, qualVars, lev, perr, mv, bip, frames>>

ConstDef == Reduce("consts")

RoleDef == Reduce("roles")

StateDef == Reduce("states")

MessageDef == Reduce("messages")

QualifierDef == Reduce("qualifiers")

EventDef == Reduce("events")

TransitionDef == Reduce("transitions")

NextParse ==
  \/ ConstDef
  \/ RoleDef
  \/ StateDef
  \/ MessageDef
  \/ QualifierDef
  \/ EventDef
  \/ TransitionDef

SpecParse == InitParse /\ [][NextParse]_vars

(***************************************************************************)
(* Message.ValidateDict on its own.  The message has a field f of any type *)
(* and rule, followed by a required field g of type int; the dictionary    *)
(* gives f any value or none and may lack g.                               *)
(***************************************************************************)
FieldTypes == {"bool", "int", "string"}

\* What a resolved value can be, lists and dictionaries apart.
PlainValues ==
  {Val(k, "", "", <<>>) : k \in {"None", "bool", "int", "string", "MessageValue"}}
  \cup {Val("LocalVar", t, "", <<>>) : t \in FieldTypes}
  \cup {Val(k, t, obj, <<>>) : k \in {"FuncGetField", "FuncSet"}, t \in FieldTypes,
                               obj \in {"Role", "LocalVar"}}
  \cup {Val("Resolved", t, "", <<>>) : t \in FieldTypes \cup {"message"}}

DictValues ==
  {Val("dict", "", "", EmptyFun),
   Val("dict", "", "", "n" :> Val("int", "", "", <<>>)),
   Val("dict", "", "", "n" :> Val("string", "", "", <<>>))}

ElementValues ==
  {Val(k, "", "", <<>>) : k \in {"None", "bool", "int", "string"}}
  \cup {Val("LocalVar", "int", "", <<>>), Val("Resolved", "string", "", <<>>),
        Val("dict", "", "", "n" :> Val("int", "", "", <<>>))}

ListValues ==
  {Val("list", "", "", elems) : elems \in UNION {[1..n -> ElementValues] : n \in 0..MaxList}}

MessageInputs ==
  {[name |-> "mTop", messages |-> nested,
    fields |-> <<[name |-> "f", type_ |-> t, optional |-> o, repeated |-> r],
                 [name |-> "g", type_ |-> "int", optional |-> FALSE, repeated |-> FALSE]>>] :
     t \in FieldTypes \cup {"mSub", "mNone"}, o \in BOOLEAN, r \in BOOLEAN,
     nested \in {{}, {"mSub"}}}

DictInputs ==
  {EmptyFun, "g" :> Val("int", "", "", <<>>)}
  \cup {"f" :> v : v \in PlainValues \cup DictValues \cup ListValues}
  \cup {("f" :> v) @@ ("g" :> Val("int", "", "", <<>>)) :
          v \in PlainValues \cup DictValues \cup ListValues}

InitMsg ==
  /\ \E m \in MessageInputs : \E d \in DictInputs :
       mv = [op |-> "none", message |-> m, dict_value |-> d, result |-> EmptyFun]
  /\ pc = "message"
  /\ graph = EmptyFun
  /\ initial = 0
  /\ plan = NoPlan
  /\ optimum = 0
  /\ RunIdle
  /\ QualIdle
  /\ lev = NoLev
  /\ perr = NoError
  /\ parse = NoParse
  /\ bip = NoMatching
  /\ frames = NoFrames

\* Message.Resolve for a message that is no array: ValidateDict over the
\* resolved fields, the module's messages being the outer messages.
Validate_Dict ==
  /\ pc = "message"
  /\ mv.op = "none"
  /\ LET r == ValidateDict(mv.message, mv.dict_value, {"mTop", "mOther"}) IN
     mv' = IF Raised(r) THEN [mv EXCEPT !.op = r.raised]
           ELSE [mv EXCEPT !.op = "returned", !.result = r.valid_dict]
  /\ UNCHANGED <<planVars, runVars, qualVars, lev, perr, parse, bip, frames>>

NextMsg == Validate_Dict

SpecMsg == InitMsg /\ [][NextMsg]_vars

(***************************************************************************)
(* BuildTransitionGraph on its own, over resolved transitions: a first     *)
(* transition with any pre_states of one or two option groups, any         *)
(* post_states of at most two values and at most one error state, and      *)
(* after it none or one of three transitions that lead back.               *)
(***************************************************************************)
RV(state, value) == [kind |-> "StateValue", state |-> state, value |-> value]

GraphValues ==
  UNION {{RV(s, DeclaredStates[s][k]) : k \in 1..Len(DeclaredStates[s])} :
           s \in 1..Len(DeclaredStates)}

\* 's.{A, B}': one group with two options of one state.
Alternatives ==
  {p \in GraphValues \X GraphValues : p[1].state = p[2].state /\ p[1].value < p[2].value}

PreInputs ==
  {<<<<a>>>> : a \in GraphValues}
  \cup {<<g>> : g \in Alternatives}
  \cup {<<<<p[1]>>, <<p[2]>>>> : p \in {q \in GraphValues \X GraphValues : StateLess(q[1], q[2])}}
  \cup {<<p[1], <<p[2]>>>> : p \in {q \in Alternatives \X GraphValues : q[2].state # q[1][1].state}}

PostInputs ==
  {<<>>}
  \cup {<<a>> : a \in GraphValues}
  \cup {p \in GraphValues \X GraphValues : StateLess(p[1], p[2])}

ErrorInputs == {<<>>} \cup {<<a>> : a \in GraphValues}

Resolved(name, pre, post, err) ==
  [name |-> name, params |-> 0, expand |-> <<>>, pre_states |-> pre,
   events |-> <<[kind |-> "FuncWithContext", id |-> 1, source |-> "rA", target |-> "rB"]>>,
   post_states |-> post, error_states |-> err]

WaysBack ==
  {<<>>,
   <<Resolved("back", <<<<RV(1, 1), RV(1, 2)>>>>, <<RV(1, 0)>>, <<>>)>>,
   <<Resolved("back", <<<<RV(2, 1)>>>>, <<RV(2, 0)>>, <<RV(1, 2)>>)>>,
   <<Resolved("back", <<<<RV(1, 1)>>, <<RV(2, 1)>>>>, <<RV(1, 0), RV(2, 0)>>, <<>>)>>}

GraphInputs ==
  {<<Resolved("first", pre, post, err)>> \o back :
     pre \in PreInputs, post \in PostInputs, err \in ErrorInputs, back \in WaysBack}

InitGraph ==
  /\ pc = "BuildTransitionGraph"
  /\ transitions \in GraphInputs
  /\ states = InitializeStatesOf(transitions, <<>>).states
  /\ module = [NoModule EXCEPT !.name = "m", !.states = DeclaredStates]
  /\ manifest = NoManifest
  /\ graph = EmptyFun
  /\ initial = 0
  /\ plan = NoPlan
  /\ optimum = 0
  /\ vertexes = <<>>
  /\ circuit_stack = <<>>
  /\ success = TRUE
  /\ result = NoResult
  /\ ran = {}
  /\ failed = {}
  /\ last = NoStep
  /\ QualIdle
  /\ LibIdle

\* transition_graph, initial_vertex = BuildTransitionGraph(transitions, states)
BuildGraph ==
  /\ pc = "BuildTransitionGraph"
  /\ LET b == BuildTransitionGraph(transitions, states, module.states) IN
     /\ graph' = b.nx_graph
     /\ initial' = b.initial_vertex
     /\ vertexes' = b.vertexes
  /\ pc' = "built"
  /\ UNCHANGED <<plan, optimum, module, manifest, transitions, states, circuit_stack,
                 success, result, ran, failed, last, qualVars, libVars>>

NextGraph == BuildGraph

SpecGraph == InitGraph /\ [][NextGraph]_vars

(***************************************************************************)
(* MaxBipartiteMatching on its own: complete bipartite graphs with the     *)
(* same number of left and right nodes, at most three of each, and with    *)
(* weights out of MatchWeights, any but that the weights of the last left  *)
(* node do not fall from one right node to the next.  Nodes are pairs, as  *)
(* the copies (n, x) the planner makes.                                    *)
(***************************************************************************)
MatchWeights == {0 - 2, 0 - 1, 1}

MatchSides == 0..3

LeftNodes(n) == {<<i, 0>> : i \in 1..n}

RightNodes(n) == {<<3 + i, 0>> : i \in 1..n}

MatchInputs(n) ==
  {w \in [LeftNodes(n) \X RightNodes(n) -> MatchWeights] :
     \A j \in 1..(n - 1) : w[<<<<n, 0>>, <<3 + j, 0>>>>] <= w[<<<<n, 0>>, <<4 + j, 0>>>>]}

InitMatch ==
  /\ pc = "matching"
  /\ \E n \in MatchSides : \E w \in MatchInputs(n) :
       bip = [op |-> "none", left |-> LeftNodes(n), right |-> RightNodes(n),
              w |-> w, matches |-> EmptyFun]
  /\ graph = EmptyFun
  /\ initial = 0
  /\ plan = NoPlan
  /\ optimum = 0
  /\ RunIdle
  /\ QualIdle
  /\ lev = NoLev
  /\ perr = NoError
  /\ parse = NoParse
  /\ mv = NoValidation
  /\ frames = NoFrames

\* matches = Context().MaxBipartiteMatching(b)
Matching ==
  /\ pc = "matching"
  /\ bip.op = "none"
  /\ \E m \in MaxBipartiteMatching(bip.left, bip.right, bip.w) :
       bip' = [bip EXCEPT !.op = "returned", !.matches = m]
  /\ UNCHANGED <<planVars, runVars, qualVars, lev, perr, parse, mv, frames>>

NextMatch == Matching

SpecMatch == InitMatch /\ [][NextMatch]_vars

(***************************************************************************)
(* Transition.Resolve call by call: frames.stack holds the definitions     *)
(* whose Resolve is running, the innermost last.                           *)
(***************************************************************************)
ResolveNames == 1..3

\* The definitions a module may give the name <<"t", n>>: a body without or
\* with a parameter, or an expansion of a name of the module, of itself or
\* of a name the module lacks, with one value or with none.
DefsOf(n) ==
  {Body(<<"t", n>>, p, Shapes[1], 1) : p \in {0, 1}}
  \cup {Expansion(<<"t", n>>, <<"t", k>>) : k \in 1..4}
  \cup {Alias(<<"t", n>>, <<"t", k>>) : k \in 1..4}

ResolveInputs == DefsOf(1) \X DefsOf(2) \X DefsOf(3)

\* ResolveTransitions calls t.Resolve(env, {}) on a transition without params.
InitResolve ==
  /\ pc = "Resolve"
  /\ \E defs \in ResolveInputs : \E i \in ResolveNames :
       /\ defs[i].params = 0
       /\ module = [NoModule EXCEPT !.name = "m", !.states = DeclaredStates,
                                    !.transitions = defs]
       /\ frames = [op |-> "Resolve", stack |-> <<i>>,
                    keys |-> [k \in 1..Len(defs) |-> defs[k].name]]
  /\ manifest = [has_constants |-> FALSE, constants |-> {}, roles_to_test |-> {"rA"}]
  /\ transitions = <<>>
  /\ states = <<>>
  /\ graph = EmptyFun
  /\ initial = 0
  /\ plan = NoPlan
  /\ optimum = 0
  /\ vertexes = <<>>
  /\ circuit_stack = <<>>
  /\ success = TRUE
  /\ result = NoResult
  /\ ran = {}
  /\ failed = {}
  /\ last = NoStep
  /\ QualIdle
  /\ lev = NoLev /\ perr = NoError /\ parse = NoParse /\ mv = NoValidation /\ bip = NoMatching

\* The definition whose Resolve runs innermost.
Self == module.transitions[frames.stack[Len(frames.stack)]]

\* found = transitions[self.expand.name]
Found == CHOOSE j \in Lookup(frames.keys, Self.expand[1].name) : TRUE

\* Self.Resolve reaches 'resolved = found.Resolve(env, new_resolved_params)'.
CallsFound ==
  /\ ~IsResolved(Self)
  /\ Self.expand # <<>>
  /\ Self.expand[1].name # Self.name
  /\ Lookup(frames.keys, Self.expand[1].name) # {}
  /\ Len(Self.expand[1].values) = module.transitions[Found].params

\* found.Resolve(env, new_resolved_params) is called.
ResolveExpand ==
  /\ pc = "Resolve"
  /\ CallsFound
  /\ Len(frames.stack) < MaxDepth
  /\ frames' = [frames EXCEPT !.stack = Append(@, Found)]
  /\ UNCHANGED <<pc, graph, initial, plan, optimum, module, manifest, transitions, states,
                 vertexes, circuit_stack, success, result, ran, failed, last, qualVars,
                 lev, perr, parse, mv, bip>>

\* The call of found.Resolve exceeds the recursion limit of the interpreter.
ResolveOverflow ==
  /\ pc = "Resolve"
  /\ CallsFound
  /\ Len(frames.stack) >= MaxDepth
  /\ frames' = [frames EXCEPT !.op = "maximum recursion depth exceeded"]
  /\ result' = Raises("RuntimeError", "ResolveTransitions")
  /\ pc' = "raised"
  /\ UNCHANGED <<graph, initial, plan, optimum, module, manifest, transitions, states,
                 vertexes, circuit_stack, success, ran, failed, last, qualVars,
                 lev, perr, parse, mv, bip>>

\* The innermost Resolve raises: every caller lets the error through.
ResolveRaise ==
  /\ pc = "Resolve"
  /\ ~CallsFound
  /\ LET r == Resolve(frames.stack[Len(frames.stack)], frames.keys, module.transitions,
                      manifest.roles_to_test)
     IN /\ Raised(r)
        /\ frames' = [frames EXCEPT !.op = r.raised]
        /\ result' = Raises(r.raised, "ResolveTransitions")
  /\ pc' = "raised"
  /\ UNCHANGED <<graph, initial, plan, optimum, module, manifest, transitions, states,
                 vertexes, circuit_stack, success, ran, failed, last, qualVars,
                 lev, perr, parse, mv, bip>>

\* The innermost Resolve returns, and every caller in turn writes
\* 'resolved.name = self.name' and returns: the outermost name is written last.
ResolveReturn ==
  /\ pc = "Resolve"
  /\ ~CallsFound
  /\ LET r == Resolve(frames.stack[Len(frames.stack)], frames.keys, module.transitions,
                      manifest.roles_to_test)
         name == module.transitions[frames.stack[1]].name
     IN /\ ~Raised(r)
        /\ module' = [module EXCEPT !.transitions =
                        IF Len(frames.stack) = 1 THEN Renamed(@, r)
                        ELSE Renamed(@, [r EXCEPT !.resolved.name = name])]
        /\ frames' = [frames EXCEPT !.op = "returned"]
  /\ pc' = "resolved"
  /\ UNCHANGED <<graph, initial, plan, optimum, manifest, transitions, states,
                 vertexes, circuit_stack, success, result, ran, failed, last, qualVars,
                 lev, perr, parse, mv, bip>>

NextResolve == ResolveExpand \/ ResolveOverflow \/ ResolveRaise \/ ResolveReturn

SpecResolve == InitResolve /\ [][NextResolve]_vars

(***************************************************************************)
(* Properties of the planner.                                              *)
(***************************************************************************)
MatchedCost(g, m) ==
  LET d == floyd_warshall(g) IN
  SumSeq([i \in 1..Len(SetToSeq(DOMAIN m)) |->
            d[<<SetToSeq(DOMAIN m)[i][1], m[SetToSeq(DOMAIN m)[i]][1]>>]])

\* C2: the sequence MinEdgeCoverCircuit returns for a strongly connected
\* multigraph contains every edge (source, target, edge_index) of the graph
\* at least once, and its first entry has the initial vertex as its source.
C2_CircuitCoversEveryEdge ==
  pc = "planned" =>
    /\ DOMAIN graph \subseteq SeqRange(plan.circuit)
    /\ plan.circuit # <<>>
    /\ plan.circuit[1][1] = initial

C2_Witness ==
  /\ pc = "planned"
  /\ Len(plan.circuit) > Cardinality(DOMAIN graph)
  /\ \E e \in DOMAIN graph : e[3] = 1

\* C3: for a strongly connected unit-weight multigraph the returned
\* sequence has |E| plus the matched pairs' shortest-path distances
\* entries, it is a closed walk from the initial vertex, and no closed walk
\* from the initial vertex that covers every edge is shorter.
C3_CircuitLengthOptimal ==
  pc = "planned" =>
    /\ Len(plan.circuit) = Cardinality(DOMAIN graph) + MatchedCost(graph, plan.matches)
    /\ ClosedWalk(graph, plan.circuit, initial)
    /\ Len(plan.circuit) = optimum

\* Two left and two right nodes whose pairings differ in cost.
C3_Witness ==
  /\ pc = "planned"
  /\ Cardinality(DOMAIN plan.matches) = 2
  /\ \E k \in DOMAIN plan.matches : \E l \in DOMAIN plan.matches :
       LET d == floyd_warshall(graph) IN
         d[<<k[1], plan.matches[k][1]>>] + d[<<l[1], plan.matches[l][1]>>]
           < d[<<k[1], plan.matches[l][1]>>] + d[<<l[1], plan.matches[k][1]>>]

\* The graph with vertices 1 (A) and 2 (B), two edges A -> B and one B -> A.
TwoOneGraph ==
  BagGraph((1..3) \X (1..3),
           [p \in (1..3) \X (1..3) |->
              IF p = <<1, 2>> THEN 2 ELSE IF p = <<2, 1>> THEN 1 ELSE 0])

\* C20 as stated: for two parallel edges A -> B and one edge B -> A the
\* circuit planned from A has exactly three entries, starts at A and ends at A.
C20_ThreeEdgeCircuit ==
  (pc = "planned" /\ graph = TwoOneGraph /\ initial = 1) =>
    /\ Len(plan.circuit) = 3
    /\ plan.circuit[1][1] = 1
    /\ plan.circuit[Len(plan.circuit)][2] = 1

\* C20: for two parallel edges A -> B and one edge B -> A the circuit
\* planned from A has exactly four entries (the edge B -> A is walked
\* twice), it covers the three edges, starts at A and ends at A.
C20_FourEdgeCircuit ==
  (pc = "planned" /\ graph = TwoOneGraph /\ initial = 1) =>
    /\ Len(plan.circuit) = 4
    /\ SeqRange(plan.circuit) = {<<1, 2, 0>>, <<1, 2, 1>>, <<2, 1, 0>>}
    /\ plan.circuit[1][1] = 1
    /\ plan.circuit[Len(plan.circuit)][2] = 1

C20_Witness ==
  /\ pc = "planned"
  /\ graph = TwoOneGraph
  /\ initial = 1
  /\ plan.matches = (<<2, 0>> :> <<1, 0>>)

\* The in-degree and the out-degree of node n in copy, the graph with one
\* virtual edge per entry of the matching m.
CopyInDegree(g, m, n) ==
  LET N == SetToSeq(GNodes(g)) IN SumSeq([i \in 1..Len(N) |-> CopyCount(g, m, N[i], n)])

CopyOutDegree(g, m, n) ==
  LET N == SetToSeq(GNodes(g)) IN SumSeq([i \in 1..Len(N) |-> CopyCount(g, m, n, N[i])])

Balanced(g, m) == \A n \in GNodes(g) : CopyInDegree(g, m, n) = CopyOutDegree(g, m, n)

\* C23: for a strongly connected multigraph, whatever matching
\* MaxBipartiteMatching returns, the copy with one virtual edge per matched
\* pair has in-degree equal to out-degree at every vertex; so has the copy
\* the circuit was planned on.
C23_AugmentedCopyBalanced ==
  /\ (pc = "plan" /\ is_strongly_connected(graph)) =>
       \A m \in MaxBipartiteMatching(PlanLeft(graph), PlanRight(graph), BipartiteWeights(graph)) :
         Balanced(graph, m)
  /\ pc = "planned" => Balanced(graph, plan.matches)

\* A node with two more edges one way than the other, split into two copies.
C23_Witness ==
  /\ pc = "planned"
  /\ \E k \in DOMAIN plan.matches : k[2] = 1
  /\ ~Balanced(graph, EmptyFun)

\* C24 as stated: of each matched pair, r being the node with more outgoing
\* than incoming edges and l the node with more incoming than outgoing
\* edges, the weight in the bipartite graph is minus the distance from r to
\* l and the virtual edge runs from r to l along a shortest path from r to l.
C24_VirtualEdgeFromRightToLeft ==
  pc = "planned" =>
    \A k \in DOMAIN plan.matches :
      LET pair == {k[1], plan.matches[k][1]} IN
      \E r \in pair : \E l \in pair :
        /\ out_degree(graph, r) > in_degree(graph, r)
        /\ in_degree(graph, l) > out_degree(graph, l)
        /\ BipartiteWeights(graph)[<<k, plan.matches[k]>>] = 0 - floyd_warshall(graph)[<<r, l>>]
        /\ <<r, l>> \in DOMAIN plan.sub_path
        /\ plan.sub_path[<<r, l>>][1] = r
        /\ plan.sub_path[<<r, l>>][Len(plan.sub_path[<<r, l>>])] = l
        /\ PathWeight(graph, plan.sub_path[<<r, l>>]) = floyd_warshall(graph)[<<r, l>>]

\* C24: each matched pair consists of a node l with more incoming than
\* outgoing edges (the key) and a node r with more outgoing than incoming
\* edges; its weight in the bipartite graph is minus the shortest-path
\* distance from l to r, and the virtual edge runs from l to r and carries a
\* shortest path from l to r.
C24_VirtualEdgeFromLeftToRight ==
  pc = "planned" =>
    \A k \in DOMAIN plan.matches :
      LET l == k[1]
          r == plan.matches[k][1]
      IN /\ in_degree(graph, l) > out_degree(graph, l)
         /\ out_degree(graph, r) > in_degree(graph, r)
         /\ BipartiteWeights(graph)[<<k, plan.matches[k]>>] = 0 - floyd_warshall(graph)[<<l, r>>]
         /\ <<l, r>> \in DOMAIN plan.sub_path
         /\ plan.sub_path[<<l, r>>][1] = l
         /\ plan.sub_path[<<l, r>>][Len(plan.sub_path[<<l, r>>])] = r
         /\ PathWeight(graph, plan.sub_path[<<l, r>>]) = floyd_warshall(graph)[<<l, r>>]

\* A matched pair whose nodes are further apart one way than the other.
C24_Witness ==
  /\ pc = "planned"
  /\ \E k \in DOMAIN plan.matches :
       floyd_warshall(graph)[<<k[1], plan.matches[k][1]>>]
         # floyd_warshall(graph)[<<plan.matches[k][1], k[1]>>]

\* The total weight of the pairs of f, a function from left nodes to right nodes.
MatchingWeight(w, f) ==
  LET L == SetToSeq(DOMAIN f) IN SumSeq([i \in 1..Len(L) |-> w[<<L[i], f[L[i]]>>]])

PerfectMatchings(left, right) ==
  {f \in [left -> right] : \A x \in left : \A y \in left : f[x] = f[y] => x = y}

\* The pairing m gives every left node a right node of its own and weighs
\* no less than any other such pairing.
PerfectAndMaximal(left, right, w, m) ==
  /\ m \in PerfectMatchings(left, right)
  /\ \A f \in PerfectMatchings(left, right) : MatchingWeight(w, f) <= MatchingWeight(w, m)

\* C25: on a complete weighted bipartite graph with as many left as right
\* nodes MaxBipartiteMatching returns, and whatever it returns pairs every
\* left node with a right node of its own and weighs no less than any other
\* such pairing.
C25_MatchingPerfectAndMaximal ==
  /\ (pc = "matching" /\ bip.op = "none") =>
       LET M == MaxBipartiteMatching(bip.left, bip.right, bip.w) IN
       /\ M # {}
       /\ \A m \in M : PerfectAndMaximal(bip.left, bip.right, bip.w, m)
  /\ (pc = "matching" /\ bip.op = "returned") =>
       PerfectAndMaximal(bip.left, bip.right, bip.w, bip.matches)

\* Three nodes a side, two of them paired by an edge lighter than another
\* of their edges, and the paired edges of three different weights.
C25_Witness ==
  /\ pc = "matching"
  /\ bip.op = "returned"
  /\ Cardinality(bip.left) = 3
  /\ Cardinality({x \in bip.left :
                    \E y \in bip.right : bip.w[<<x, y>>] > bip.w[<<x, bip.matches[x]>>]}) = 2
  /\ Cardinality({bip.w[<<x, bip.matches[x]>>] : x \in bip.left}) = 3

(***************************************************************************)
(* Properties of the driver.                                               *)
(***************************************************************************)
\* The transitions the module declares without parameters.
DeclaredForTest ==
  {module.transitions[i].name : i \in {j \in 1..Len(module.transitions) :
                                          module.transitions[j].params = 0}}

\* C1: when the executor has finished and no transition's Run returned
\* false, it returns true and every parameterless transition the module
\* declares has had its Run invoked at least once.
C1_EveryTransitionRuns ==
  (pc = "returned" /\ failed = {}) =>
    /\ result.value = TRUE
    /\ DeclaredForTest \subseteq ran

\* C4: TraverseGraph returns true only if no Run returned false: once a
\* transition has failed, success is false and stays so, and every return
\* (stack emptied or reroute aborted) returns false.
C4_TrueOnlyWithoutFailure ==
  /\ failed # {} => success = FALSE
  /\ (pc = "returned" /\ failed # {}) => result.value = FALSE
  /\ (pc = "returned" /\ result.value = TRUE) => failed = {}

\* A failure that was recovered from, the circuit run to its end.
C4_Witness ==
  /\ pc = "returned"
  /\ failed # {}
  /\ ~last.aborted
  /\ circuit_stack = <<>>
  /\ result.value = FALSE

\* The edges of a node path, each hop by its cheapest parallel edge.
HopsOf(g, path) ==
  [i \in 1..(Len(path) - 1) |-> <<path[i], path[i + 1], min_edge_i(g, path[i], path[i + 1])>>]

\* C5: when the transition of a popped edge (s, t) fails, the executor goes
\* on (or stops because the reroute met an edge of infinite weight), and
\* what it pops next are the edges of a shortest path under the updated
\* weights from the edge's error vertex to t, in path order, and after them
\* what was pending before the failure.
C5_RerouteFollowsShortestPath ==
  last.kind = "failed" =>
    /\ pc # "raised"
    /\ last.aborted \/
         /\ Reverse(circuit_stack) = last.path_stack \o Reverse(last.pending)
         /\ \E p \in shortest_path(graph, last.error_vertex_id, last.edge[2]) :
              last.path_stack = HopsOf(graph, p)

\* C6: an edge whose transition has failed keeps weight +infinity, its
\* transition is never run again through that edge, and no path a reroute
\* builds afterwards contains it.
C6_FailedEdgeStaysOut ==
  /\ \A e \in failed : graph[e].weight = Inf
  /\ last.kind \in {"passed", "failed"} => last.edge \notin last.failed_before
  /\ \A i \in 1..Len(last.path_stack) : last.path_stack[i] \notin failed

\* A failed edge is popped again, is not run, and the run goes on along a
\* path that a reroute pushes.
C6_Witness ==
  /\ pc = "loop"
  /\ last.kind = "skipped"
  /\ last.edge \in last.failed_before
  /\ last.path_stack # <<>>
  /\ ~last.aborted

\* C7: if the cheapest parallel edge between two consecutive vertices of
\* the path of a reroute has weight +infinity, the executor has stopped:
\* it has returned false, has pushed nothing, and takes no further step.
C7_RerouteAbortsOnInfiniteEdge ==
  (/\ last.kind \in {"failed", "skipped"}
   /\ \E i \in 1..(Len(last.new_path) - 1) :
        StepWeight(graph, last.new_path[i], last.new_path[i + 1]) >= Inf) =>
    /\ pc = "returned"
    /\ result = [kind |-> "returned", value |-> FALSE, error |-> "", at |-> "TraverseGraph"]
    /\ circuit_stack = last.pending
    /\ ~ENABLED TraverseLoop

\* The reroute gets past a first hop and stops at a later one.
C7_Witness ==
  /\ pc = "returned"
  /\ last.aborted
  /\ last.path_stack # <<>>
  /\ last.pending # <<>>

C10_UnboundConstantAborts ==
  (pc # "FillInConstants" /\ UndefinedConsts(module) # {}) =>
    /\ pc = "raised"
    /\ result.at = "FillInConstants"
    /\ transitions = <<>>
    /\ ran = {}

\* C26: every edge whose transition is run starts at the vertex the system
\* is in: the initial vertex at first, then the target of the last run edge
\* if it passed and its error vertex if it failed, skipped edges in between
\* or not.
C26_RunEdgesFormOneWalk ==
  last.kind \in {"passed", "failed"} => last.edge[1] = last.from

\* C27: TraverseGraph terminates whatever the runs return: once the loop is
\* entered, the circuit stack empties or the run aborts or raises, although
\* every failure and every skipped edge may push a new path onto the stack.
C27_TraversalTerminates == (pc = "loop") ~> (pc \in {"returned", "raised"})

\* The loop goes on with a stack that a skipped edge has made longer.
C27_Witness ==
  /\ pc = "loop"
  /\ last.kind = "skipped"
  /\ last.path_stack # <<>>
  /\ Len(circuit_stack) > Len(last.pending)

(***************************************************************************)
(* Properties of the qualifiers.                                           *)
(***************************************************************************)
\* C9: for every built-in qualifier, after any earlier calls,
\* q.Validate(q.Generate(a), a) returns true.
C9_GeneratedValueIsValid ==
  qcall.op = "ValidateGenerated" => qcall.valid

\* The nodes reached from the nodes S along edges of g, whatever their weight.
RECURSIVE ReachFrom(_, _)
ReachFrom(g, S) ==
  LET T == S \cup {e[2] : e \in {d \in DOMAIN g : d[1] \in S}} IN
  IF T = S THEN S ELSE ReachFrom(g, T)

StronglyConnected(g) == \A a \in GNodes(g) : ReachFrom(g, {a}) = GNodes(g)

BothUnderTest(e) ==
  e.source \in manifest.roles_to_test /\ e.target \in manifest.roles_to_test

\* C11: a transition with an event whose source role and target role are
\* both under test makes ResolveTransitions raise, and no transition among
\* the resolved transitions has such an event.  (Every declaration with a
\* body in these modules is parameterless or expanded by a parameterless
\* one, so each of them is resolved unless an earlier one has raised.)
C11_TwoRolesUnderTestRejected ==
  /\ \A k \in 1..Len(transitions) : \A n \in 1..Len(transitions[k].events) :
       ~BothUnderTest(transitions[k].events[n])
  /\ (/\ pc \notin {"FillInConstants", "ResolveTransitions"}
      /\ \E i \in 1..Len(module.transitions) :
           \E n \in 1..Len(module.transitions[i].events) :
             BothUnderTest(module.transitions[i].events[n]))
     => (result.kind = "raised" /\ result.at = "ResolveTransitions")

\* C12: when the transition graph is not strongly connected the planner
\* raises RuntimeError and the run ends there: no transition has been run,
\* nothing is planned and no step of the loop has been taken.  The test the
\* planner makes on the graph about to be built fails for exactly the graphs
\* in which some node is not reached from some other.
C12_NotStronglyConnectedAborts ==
  /\ pc = "TraverseGraph" =>
       LET b == BuildTransitionGraph(transitions, states, module.states) IN
       b.nx_graph # EmptyFun =>
         (is_strongly_connected(b.nx_graph) <=> StronglyConnected(b.nx_graph))
  /\ (graph # EmptyFun /\ ~StronglyConnected(graph))
     => /\ pc = "raised"
        /\ result = Raises("RuntimeError", "MinEdgeCoverCircuit")
        /\ ran = {}
        /\ plan = NoPlan
        /\ circuit_stack = <<>>
        /\ last = NoStep

C12_Witness ==
  /\ pc = "raised"
  /\ result = Raises("RuntimeError", "MinEdgeCoverCircuit")
  /\ graph # EmptyFun
  /\ ~StronglyConnected(graph)
  /\ Len(transitions) > 1

\* C17: every transition ResolveTransitions returns is fully bound: no
\* parameters, no expansion, every pre, post and error state a resolved
\* StateValue and every event a resolved function with its context.
C17_ResolvedTransitionsFullyBound ==
  \A k \in 1..Len(transitions) :
    LET t == transitions[k] IN
    /\ t.params = 0
    /\ t.expand = <<>>
    /\ \A v \in SeqRange(StateValuesOf(t)) : v.kind = "StateValue"
    /\ \A e \in SeqRange(t.events) : e.kind = "FuncWithContext"

\* C18: ResolveTransitions leaves every definition stored in the module as
\* the parser made it: same name, parameters, states, events and expansion.
C18_ResolutionKeepsDefinitions ==
  [][pc = "ResolveTransitions" => module'.transitions = module.transitions]_vars

(***************************************************************************)
(* Properties of the library functions.                                    *)
(***************************************************************************)
\* The strings one insertion, deletion or substitution of a lower-case
\* character away from s, none longer than n.
OneEdit(s, n) ==
  LET low == {LowerChar(c) : c \in Chars} IN
  {[i \in 1..(Len(s) - 1) |-> IF i < k THEN s[i] ELSE s[i + 1]] : k \in 1..Len(s)}
  \cup {[s EXCEPT ![k] = c] : k \in 1..Len(s), c \in low}
  \cup (IF Len(s) >= n THEN {}
        ELSE {[i \in 1..(Len(s) + 1) |->
                 IF i < k THEN s[i] ELSE IF i = k THEN c ELSE s[i - 1]] :
                k \in 1..(Len(s) + 1), c \in low})

\* The least number of edits that lead from a string of S to b.
RECURSIVE StepsTo(_, _, _)
StepsTo(S, b, n) ==
  IF b \in S THEN 0 ELSE 1 + StepsTo(S \cup UNION {OneEdit(s, n) : s \in S}, b, n)

\* The Levenshtein distance between lower-case strings, by its definition.
EditDistance ==
  LET low == {lower(w) : w \in Words} IN
  Table([p \in low \X low |->
           StepsTo({p[1]}, p[2], IF Len(p[1]) > Len(p[2]) THEN Len(p[1]) ELSE Len(p[2]))])

CaseInsensitiveDistance(a, b) == EditDistance[<<lower(a), lower(b)>>]

\* C13: for a non-empty list closest_candidate returns the first candidate
\* of the list whose case-insensitive Levenshtein distance to the target is
\* the least over the list.
C13_ClosestCandidateIsFirstMinimal ==
  (pc = "levenshtein" /\ lev.op # "none" /\ lev.candidates # <<>>) =>
    /\ lev.op = "returned"
    /\ \E i \in 1..Len(lev.candidates) :
         /\ lev.result = lev.candidates[i]
         /\ \A j \in 1..Len(lev.candidates) :
              CaseInsensitiveDistance(lev.target, lev.candidates[i])
                <= CaseInsensitiveDistance(lev.target, lev.candidates[j])
         /\ \A j \in 1..(i - 1) :
              CaseInsensitiveDistance(lev.target, lev.candidates[i])
                < CaseInsensitiveDistance(lev.target, lev.candidates[j])
         /\ \A j \in 1..(i - 1) : lev.candidates[j] # lev.result

\* Two candidates at the same distance that differ from the target only by
\* case and by one substitution: the first is returned.
C13_Witness ==
  /\ pc = "levenshtein"
  /\ lev.op = "returned"
  /\ lev.target = <<"a", "b">>
  /\ lev.candidates = <<<<"A", "a">>, <<"b", "b">>>>
  /\ lev.result = <<"A", "a">>

\* The symbols of pattern are the last symbols of stack.
IsSuffix(pattern, stack) ==
  /\ Len(pattern) <= Len(stack)
  /\ \A k \in 1..Len(pattern) : stack[Len(stack) - Len(pattern) + k] = pattern[k]

EndsWithPatternOf(error, stack) ==
  \E pattern \in SeqRange(error.stack_patterns) : IsSuffix(pattern, stack)

\* The id of the first error, in the documented priority order, one of
\* whose patterns is a suffix of the stack.
FirstInPriority(stack) ==
  IF EndsWithPatternOf(MISSING_SEMICOLON, stack) THEN 201
  ELSE IF EndsWithPatternOf(MISSING_POST_STATES, stack) THEN 301
  ELSE IF EndsWithPatternOf(MISSING_PRE_STATES, stack) THEN 302
  ELSE IF EndsWithPatternOf(EMPTY_PRE_STATES, stack) THEN 303
  ELSE IF EndsWithPatternOf(MISSING_CLOSING_CURLY_BRACE, stack) THEN 202
  ELSE 200

DocumentedErrors ==
  {MISSING_SEMICOLON, MISSING_POST_STATES, MISSING_PRE_STATES, EMPTY_PRE_STATES,
   MISSING_CLOSING_CURLY_BRACE}

\* C14 as stated: the id reported is that of the first error in priority
\* order with a pattern that is a suffix of the stack; every stack whose
\* tail is a documented pattern yields that pattern's id; every stack
\* yields an id.
C14_EveryPatternYieldsItsId ==
  (pc = "parser_error" /\ perr.op # "none") =>
    /\ perr.op = "returned"
    /\ perr.id = FirstInPriority(perr.symstack)
    /\ \A error \in DocumentedErrors :
         EndsWithPatternOf(error, perr.symstack) => perr.id = error.error_id

\* C14: the id reported is that of the first error in priority order with
\* a pattern that is a suffix of the stack, and every stack yields an id; a
\* stack whose tail is a documented pattern yields that pattern's id, but
\* for the pattern '{' of missing-closing-curly-brace under a stack that
\* ends with TRANSITION NAME params '{', which yields missing-pre-states.
C14_FirstMatchingErrorReported ==
  (pc = "parser_error" /\ perr.op # "none") =>
    /\ perr.op = "returned"
    /\ perr.id = FirstInPriority(perr.symstack)
    /\ perr.id \in {200, 201, 202, 301, 302, 303}
    /\ \A error \in DocumentedErrors :
         EndsWithPatternOf(error, perr.symstack) =>
           \/ perr.id = error.error_id
           \/ /\ error = MISSING_CLOSING_CURLY_BRACE
              /\ EndsWithPatternOf(MISSING_PRE_STATES, perr.symstack)
              /\ perr.id = 302

C14_Witness ==
  /\ pc = "parser_error"
  /\ perr.op = "returned"
  /\ perr.symstack = <<"$end", "defs", "TRANSITION", "NAME", "params", "{">>
  /\ perr.id = 302

\* C15: when a name is defined again, or a field or parameter named again,
\* parsing goes on and the module equals the one the same input gives
\* without its later duplicates (the first definition wins).
C15_FirstDefinitionWins ==
  /\ pc # "parse_error"
  /\ pc = "parse" => parse.module = parse.kept

\* C16: no name is a key of more than one of the dictionaries of a module.
C16_NameInOneDictionary ==
  pc \in {"parse", "parse_error"} =>
    \A name \in DefNames : Cardinality({c \in Categories : name \in DOMAIN parse.module[c]}) <= 1

\* What the claim lets a field of primitive type type_ take.
Acceptable(value, type_) ==
  \/ value.kind = type_
  \/ value.kind = "LocalVar" /\ value.type = type_
  \/ value.kind \in {"FuncGetField", "FuncSet"} /\ value.type = type_
  \/ value.kind = "Resolved" /\ value.type = type_

\* C19: ValidateDict returns only if every value given for a field of type
\* bool, int or string is a primitive of that type, a local of that type, a
\* get or set of a role field or local of that type, or a qualifier of that
\* qualified type, a repeated field having a list of such values; and only
\* if no field that is not optional is missing.
C19_OnlyTypedValuesAccepted ==
  (pc = "message" /\ mv.op = "returned") =>
    \A k \in 1..Len(mv.message.fields) :
      LET f == mv.message.fields[k] IN
      IF f.name \notin DOMAIN mv.dict_value THEN f.optional
      ELSE LET value == mv.dict_value[f.name] IN
           f.type_ \in FieldTypes =>
             IF f.repeated
             THEN /\ value.kind = "list"
                  /\ \A e \in 1..Len(value.elems) : Acceptable(value.elems[e], f.type_)
             ELSE Acceptable(value, f.type_)

(***************************************************************************)
(* Properties of the transition graph.                                     *)
(***************************************************************************)
\* An option is incompatible with the state list V exactly when V holds a
\* different value for the option's state.
Compatible(V, option) ==
  ~\E i \in 1..Len(V) : V[i].state = option.state /\ V[i].value # option.value

\* The transitions with an edge out of the vertex at position v.
EdgeTransitions(v) == {graph[e].transition : e \in {d \in DOMAIN graph : d[1] = v}}

\* C21: a resolved transition t is among the transitions matched for a
\* vertex V (it labels an edge out of V) if and only if every option group
\* of t.pre_states has at least one option compatible with V.
C21_MatchesIffEveryGroupHasOption ==
  pc = "built" =>
    \A v \in 1..Len(vertexes) : \A ti \in 1..Len(transitions) :
      ti \in EdgeTransitions(v) <=>
        \A g \in 1..Len(transitions[ti].pre_states) :
          \E o \in 1..Len(transitions[ti].pre_states[g]) :
            Compatible(vertexes[v], transitions[ti].pre_states[g][o])

\* A transition with two option groups, one of them with two options, that
\* matches one vertex and does not match another.
C21_Witness ==
  /\ pc = "built"
  /\ Len(transitions[1].pre_states) = 2
  /\ Len(transitions[1].pre_states[1]) = 2
  /\ 1 \in EdgeTransitions(1)
  /\ \E v \in 1..Len(vertexes) : 1 \notin EdgeTransitions(v)

\* C22: for every edge V -> W built for a transition t, W holds the values
\* of t.post_states, for every state not named there the value V holds, and
\* nothing else; building the graph leaves t.post_states as it was, and V
\* is the vertex the transition was matched with.
C22_OutputVertexKeepsTheRest ==
  [][pc = "BuildTransitionGraph" =>
       /\ transitions' = transitions
       /\ \A e \in DOMAIN graph' :
            LET V == vertexes'[e[1]]
                W == vertexes'[e[2]]
                post == transitions[graph'[e].transition].post_states
            IN /\ \A ti \in {graph'[e].transition} :
                    \A g \in 1..Len(transitions[ti].pre_states) :
                      \E o \in 1..Len(transitions[ti].pre_states[g]) :
                        Compatible(V, transitions[ti].pre_states[g][o])
               /\ SeqRange(W) = SeqRange(post)
                    \cup {x \in SeqRange(V) : \A k \in 1..Len(post) : post[k].state # x.state}
               /\ Len(W) = Cardinality(SeqRange(W))]_vars

\* C30: every vertex BuildTransitionGraph creates holds exactly one value
\* for each state gathered from the resolved transitions, and none for any
\* other state.
C30_OneValuePerState ==
  \A v \in 1..Len(vertexes) :
    /\ \A s \in SeqRange(states) :
         Cardinality({i \in 1..Len(vertexes[v]) : vertexes[v][i].state = s}) = 1
    /\ \A i \in 1..Len(vertexes[v]) : vertexes[v][i].state \in SeqRange(states)

\* C28: the error_vertex_id of every edge of the graph handed to the
\* planner is a node of that graph.
C28_ErrorVertexIsNode ==
  \A e \in DOMAIN graph : graph[e].error_vertex_id \in GNodes(graph)

(***************************************************************************)
(* Properties of Transition.Resolve.                                       *)
(***************************************************************************)
\* C29: Transition.Resolve ends on every module: a chain of expansions that
\* leads back to a transition already being expanded is rejected with an
\* error, so no transition is being expanded twice at once.
C29_NoTransitionExpandedTwice ==
  \A a, b \in 1..Len(frames.stack) : a # b => frames.stack[a] # frames.stack[b]

====
